---- MODULE Spec2Model ----
(***************************************************************************)
(* A model of the como-mqtt client core: the MQTT v5 wire codec            *)
(* (src/v5/*.rs), the packet identifier allocator (src/identifier.rs) and  *)
(* the QoS delivery engine of the client (src/client.rs).                  *)
(*                                                                         *)
(* Conventions.  A byte is a number in 0..255 and a buffer (Bytes,         *)
(* BytesMut, MqttString) is a sequence of bytes.  Option<T> is a sequence  *)
(* of length at most one: None is << >> and Some(x) is << x >>.  A         *)
(* Result is a record with an err field: "" stands for Ok, any other       *)
(* string names the MqttError variant (or "panic" for an abort).           *)
(***************************************************************************)
EXTENDS Integers, Sequences, FiniteSets, TLC

None == << >>
Some(x) == << x >>
IsSome(o) == o # << >>
Unwrap(o) == o[1]

Drop(s, n) == SubSeq(s, n + 1, Len(s))
Take(s, n) == SubSeq(s, 1, n)

RECURSIVE Zeros(_)
Zeros(n) == IF n = 0 THEN << >> ELSE <<0>> \o Zeros(n - 1)

RECURSIVE Flatten(_)
Flatten(ss) == IF ss = << >> THEN << >> ELSE Head(ss) \o Flatten(Tail(ss))

(* big-endian integers: BufMut::put_u16 / put_u32, Buf::get_u16 / get_u32 *)
put_u16(n) == << (n \div 256) % 256, n % 256 >>
put_u32(n) == << (n \div 16777216) % 256, (n \div 65536) % 256, (n \div 256) % 256, n % 256 >>
get_u16(r) == r[1] * 256 + r[2]
get_u32(r) == r[1] * 16777216 + r[2] * 65536 + r[3] * 256 + r[4]

(***************************************************************************)
(* Variable-length integers                                                *)
(***************************************************************************)

(* encoder.rs: the bytes encode_variable_integer writes for v *)
RECURSIVE encode_variable_integer(_)
encode_variable_integer(v) ==
    LET encoded_byte == v % 128
        value == v \div 128
    IN  IF value > 0
        THEN << encoded_byte + 128 >> \o encode_variable_integer(value)
        ELSE << encoded_byte >>

(* size with the two-byte range starting one value late *)
size_usize_late(v) ==
    IF v <= 128 THEN 1
    ELSE IF v <= 16383 THEN 2
    ELSE IF v <= 2097151 THEN 3
    ELSE 4

(* encoder.rs: PropertiesSize for usize *)
size_usize(v) ==
    IF v <= 127 THEN 1
    ELSE IF v <= 16383 THEN 2
    ELSE IF v <= 2097151 THEN 3
    ELSE 4

(* decoder.rs: the loop of decode_variable_integer, on its n-th byte
   (multiplier = 128^(n-1)).  The accumulator is a u32: on a fifth byte the
   product (b & 0x7F) * 128^4 exceeds 32 bits as soon as b & 0x7F >= 16; the
   overflow field records it (the addition aborts a build with overflow
   checks and wraps otherwise), and in both cases the ensure! that follows
   rejects the sequence. *)
RECURSIVE decode_varint_loop(_, _, _)
decode_varint_loop(reader, multiplier, value) ==
    IF Len(reader) = 0
    THEN [err |-> "EndOfStream", value |-> 0, rest |-> reader, overflow |-> FALSE]
    ELSE LET encoded_byte == reader[1]
             rest == Tail(reader)
         IN  IF multiplier > 128 * 128 * 128
             THEN [err |-> "MalformedVariableInteger", value |-> 0, rest |-> rest,
                   overflow |-> (encoded_byte % 128) >= 16]
             ELSE LET v2 == value + (encoded_byte % 128) * multiplier
                  IN  IF encoded_byte < 128
                      THEN [err |-> "", value |-> v2, rest |-> rest, overflow |-> FALSE]
                      ELSE decode_varint_loop(rest, multiplier * 128, v2)

decode_variable_integer(reader) == decode_varint_loop(reader, 1, 0)

(***************************************************************************)
(* UTF-8 strings                                                           *)
(***************************************************************************)

(* encoder.rs encode_utf8_string / string.rs Encoder<MqttString>: the u16
   length, then the bytes.  The capacity guards never fire: the writer was
   reserved for the whole packet and BytesMut grows on put. *)
encode_utf8_string(s) == put_u16(Len(s)) \o s

(* decoder.rs decode_utf8_string: a zero-length string decodes to None *)
decode_utf8_string(reader) ==
    IF Len(reader) >= 2
    THEN LET len == get_u16(reader)
             r2 == Drop(reader, 2)
         IN  IF Len(r2) >= len
             THEN IF len > 0
                  THEN [err |-> "", value |-> Some(Take(r2, len)), rest |-> Drop(r2, len)]
                  ELSE [err |-> "", value |-> None, rest |-> r2]
             ELSE [err |-> "EndOfStream", value |-> None, rest |-> r2]
    ELSE [err |-> "EndOfStream", value |-> None, rest |-> reader]

(***************************************************************************)
(* types.rs: QoS, Retain, reason codes, packet types                       *)
(***************************************************************************)

(* QoS and Retain are their discriminants 0, 1, 2 *)
QoS_try_from(v) == IF v \in {0, 1, 2} THEN [err |-> "", value |-> v]
                   ELSE [err |-> "MalformedQoS", value |-> 0]
Retain_try_from(v) == IF v \in {0, 1, 2} THEN [err |-> "", value |-> v]
                      ELSE [err |-> "MalformedRetain", value |-> 0]

(* the bytes ReasonCode::try_from accepts *)
ReasonCodes == {0, 1, 2, 4, 17} \cup (128 .. 147) \cup {149, 151, 153, 154, 155, 156, 157, 159}
ReasonCode_try_from(b) == IF b \in ReasonCodes THEN [err |-> "", value |-> b]
                          ELSE [err |-> "MalformedReasonCode", value |-> 0]
Success == 0
UnspecifiedError == 128

(* PacketType::try_from reading the retain flag from bit 3 and dup from bit 0 *)
PacketType_try_from_flags_swapped(v) ==
    CASE v = 16  -> [err |-> "", value |-> [name |-> "Connect"]]
      [] v = 32  -> [err |-> "", value |-> [name |-> "ConnAck"]]
      [] v \in 48 .. 63 ->
            LET q == QoS_try_from((v \div 2) % 4)
            IN  IF q.err # "" THEN [err |-> q.err, value |-> [name |-> "Publish"]]
                ELSE [err |-> "",
                      value |-> [name |-> "Publish", dup |-> v % 2 = 1,
                                 qos |-> q.value, retain |-> (v \div 8) % 2 = 1]]
      [] v = 64  -> [err |-> "", value |-> [name |-> "PubAck"]]
      [] v = 80  -> [err |-> "", value |-> [name |-> "PubRec"]]
      [] v = 98  -> [err |-> "", value |-> [name |-> "PubRel"]]
      [] v = 112 -> [err |-> "", value |-> [name |-> "PubComp"]]
      [] v = 130 -> [err |-> "", value |-> [name |-> "Subscribe"]]
      [] v = 144 -> [err |-> "", value |-> [name |-> "SubAck"]]
      [] v = 162 -> [err |-> "", value |-> [name |-> "UnSubscribe"]]
      [] v = 176 -> [err |-> "", value |-> [name |-> "UnSubAck"]]
      [] v = 192 -> [err |-> "", value |-> [name |-> "PingReq"]]
      [] v = 208 -> [err |-> "", value |-> [name |-> "PingResp"]]
      [] v = 224 -> [err |-> "", value |-> [name |-> "Disconnect"]]
      [] v = 240 -> [err |-> "", value |-> [name |-> "Auth"]]
      [] OTHER   -> [err |-> "MalformedPacketType", value |-> [name |-> "none"]]

(* PacketType::try_from(u8) *)
PacketType_try_from(v) ==
    CASE v = 16  -> [err |-> "", value |-> [name |-> "Connect"]]
      [] v = 32  -> [err |-> "", value |-> [name |-> "ConnAck"]]
      [] v \in 48 .. 63 ->
            LET q == QoS_try_from((v \div 2) % 4)
            IN  IF q.err # "" THEN [err |-> q.err, value |-> [name |-> "Publish"]]
                ELSE [err |-> "",
                      value |-> [name |-> "Publish", dup |-> (v \div 8) % 2 = 1,
                                 qos |-> q.value, retain |-> v % 2 = 1]]
      [] v = 64  -> [err |-> "", value |-> [name |-> "PubAck"]]
      [] v = 80  -> [err |-> "", value |-> [name |-> "PubRec"]]
      [] v = 98  -> [err |-> "", value |-> [name |-> "PubRel"]]
      [] v = 112 -> [err |-> "", value |-> [name |-> "PubComp"]]
      [] v = 130 -> [err |-> "", value |-> [name |-> "Subscribe"]]
      [] v = 144 -> [err |-> "", value |-> [name |-> "SubAck"]]
      [] v = 162 -> [err |-> "", value |-> [name |-> "UnSubscribe"]]
      [] v = 176 -> [err |-> "", value |-> [name |-> "UnSubAck"]]
      [] v = 192 -> [err |-> "", value |-> [name |-> "PingReq"]]
      [] v = 208 -> [err |-> "", value |-> [name |-> "PingResp"]]
      [] v = 224 -> [err |-> "", value |-> [name |-> "Disconnect"]]
      [] v = 240 -> [err |-> "", value |-> [name |-> "Auth"]]
      [] OTHER   -> [err |-> "MalformedPacketType", value |-> [name |-> "none"]]

BoolU8(b) == IF b THEN 1 ELSE 0

(* From<PacketType> for u8 *)
PacketType_into(p) ==
    CASE p.name = "Connect"     -> 16
      [] p.name = "ConnAck"     -> 32
      [] p.name = "Publish"     -> 48 + BoolU8(p.dup) * 8 + p.qos * 2 + BoolU8(p.retain)
      [] p.name = "PubAck"      -> 64
      [] p.name = "PubRec"      -> 80
      [] p.name = "PubRel"      -> 98
      [] p.name = "PubComp"     -> 112
      [] p.name = "Subscribe"   -> 130
      [] p.name = "SubAck"      -> 144
      [] p.name = "UnSubscribe" -> 162
      [] p.name = "UnSubAck"    -> 176
      [] p.name = "PingReq"     -> 192
      [] p.name = "PingResp"    -> 208
      [] p.name = "Disconnect"  -> 224
      [] p.name = "Auth"        -> 240

(***************************************************************************)
(* property.rs: property ids and the shared builder                        *)
(***************************************************************************)

PayloadFormatIndicator == 1
MessageExpireInterval == 2
ContentType == 3
ResponseTopic == 8
CorrelationData == 9
SubscriptionIdentifier == 11
SessionExpireInterval == 17
AssignedClientIdentifier == 18
ServerKeepAlive == 19
AuthenticationMethod == 21
AuthenticationData == 22
RequestProblemInformation == 23
WillDelayInterval == 24
RequestResponseInformation == 25
ResponseInformation == 26
ServerReference == 28
ReasonString == 31
ReceiveMaximum == 33
TopicAliasMaximum == 34
TopicAlias == 35
MaximumQoS == 36
RetainAvailable == 37
UserProperty == 38
MaximumPacketSize == 39
WildcardSubscriptionAvailable == 40
SubscriptionIdentifierAvailable == 41
SharedSubscriptionAvailable == 42

(* the ids Property::try_from(u32) accepts *)
PropertyIds == {1, 2, 3, 8, 9, 11, 17, 18, 19, 21, 22, 23, 24, 25, 26, 28, 31,
                33, 34, 35, 36, 37, 38, 39, 40, 41, 42}

(* PropertiesBuilder::default() *)
PropertiesBuilder_default ==
    [payload_format_indicator |-> None, message_expire_interval |-> None,
     content_type |-> None, response_topic |-> None, correlation_data |-> None,
     subscription_identifier |-> None, session_expire_interval |-> None,
     assigned_client_identifier |-> None, server_keep_alive |-> None,
     authentication_method |-> None, authentication_data |-> None,
     request_problem_information |-> None, will_delay_interval |-> None,
     request_response_information |-> None, response_information |-> None,
     server_reference |-> None, reason_string |-> None, receive_maximum |-> None,
     topic_alias_maximum |-> None, topic_alias |-> None, maximum_qos |-> None,
     retain_available |-> None, user_properties |-> << >>,
     maximum_packet_size |-> None, wildcard_subscription_available |-> None,
     subscription_identifier_available |-> None, shared_subscription_available |-> None]

(* macro check_and_set!: a slot is assigned at most once *)
check_and_set(builder, slot, value) ==
    IF builder[slot] = None
    THEN [err |-> "", builder |-> [builder EXCEPT ![slot] = Some(value)]]
    ELSE [err |-> "MoreThanOnceProperty", builder |-> builder]

(* the setters taking Option<..>: content_type, response_topic, server_reference,
   correlation_data, assigned_client_identifier *)
set_non_empty(builder, slot, value) ==
    IF IsSome(value) THEN check_and_set(builder, slot, Unwrap(value))
    ELSE [err |-> "EmptyPropertyValue", builder |-> builder]

(* PropertiesBuilder::maximum_qos *)
set_maximum_qos(builder, value) ==
    LET q == QoS_try_from(value)
    IN  IF q.err # "" THEN [err |-> q.err, builder |-> builder]
        ELSE check_and_set(builder, "maximum_qos", q.value)

(* PropertiesBuilder::user_property *)
user_property(builder, kv) ==
    [builder EXCEPT !.user_properties = Append(@, kv)]

(* the projections of the builder *)
pubres(b) == [reason_string |-> b.reason_string, user_properties |-> b.user_properties]
publish(b) ==
    [payload_format_indicator |-> b.payload_format_indicator,
     message_expire_interval |-> b.message_expire_interval,
     topic_alias |-> b.topic_alias, response_topic |-> b.response_topic,
     correlation_data |-> b.correlation_data, user_properties |-> b.user_properties,
     subscription_identifier |-> b.subscription_identifier,
     content_type |-> b.content_type]
connack(b) ==
    [session_expire_interval |-> b.session_expire_interval,
     receive_maximum |-> b.receive_maximum, maximum_qos |-> b.maximum_qos,
     retain_available |-> b.retain_available,
     maximum_packet_size |-> b.maximum_packet_size,
     assigned_client_identifier |-> b.assigned_client_identifier,
     topic_alias_maximum |-> b.topic_alias_maximum,
     reason_string |-> b.reason_string, user_properties |-> b.user_properties,
     wildcard_subscription_available |-> b.wildcard_subscription_available,
     subscription_identifier_available |-> b.subscription_identifier_available,
     shared_subscription_available |-> b.shared_subscription_available,
     server_keep_alive |-> b.server_keep_alive,
     response_information |-> b.response_information,
     server_reference |-> b.server_reference,
     authentication_method |-> b.authentication_method,
     authentication_data |-> b.authentication_data]
disconnect(b) ==
    [session_expire_interval |-> b.session_expire_interval,
     reason_string |-> b.reason_string, user_properties |-> b.user_properties,
     server_reference |-> b.server_reference]
subscribe(b) ==
    [subscription_identifier |-> b.subscription_identifier,
     user_properties |-> b.user_properties]

(***************************************************************************)
(* Property decoding.  Each helper is one match arm of a decode loop: it   *)
(* returns the builder and the rest of the reader, or the error of the `?`.*)
(***************************************************************************)

PFail(e, builder, reader) == [err |-> e, builder |-> builder, rest |-> reader]

(* end_of_stream!(remaining < 1); builder.<slot>(reader.get_u8())?  (value != 0) *)
prop_bool(reader, builder, slot) ==
    IF Len(reader) < 1 THEN PFail("EndOfStream", builder, reader)
    ELSE LET r == check_and_set(builder, slot, reader[1] # 0)
         IN  [err |-> r.err, builder |-> r.builder, rest |-> Drop(reader, 1)]

(* end_of_stream!(remaining < 1); builder.maximum_qos(reader.get_u8())? *)
prop_qos(reader, builder) ==
    IF Len(reader) < 1 THEN PFail("EndOfStream", builder, reader)
    ELSE LET r == set_maximum_qos(builder, reader[1])
         IN  [err |-> r.err, builder |-> r.builder, rest |-> Drop(reader, 1)]

(* end_of_stream!(remaining < 2); builder.<slot>(reader.get_u16())? *)
prop_u16(reader, builder, slot) ==
    IF Len(reader) < 2 THEN PFail("EndOfStream", builder, reader)
    ELSE LET r == check_and_set(builder, slot, get_u16(reader))
         IN  [err |-> r.err, builder |-> r.builder, rest |-> Drop(reader, 2)]

(* end_of_stream!(remaining < 4); builder.<slot>(reader.get_u32())? *)
prop_u32(reader, builder, slot) ==
    IF Len(reader) < 4 THEN PFail("EndOfStream", builder, reader)
    ELSE LET r == check_and_set(builder, slot, get_u32(reader))
         IN  [err |-> r.err, builder |-> r.builder, rest |-> Drop(reader, 4)]

(* builder.<slot>(decode_utf8_string(&mut reader)?)?  for the Option setters *)
prop_string(reader, builder, slot) ==
    LET s == decode_utf8_string(reader)
    IN  IF s.err # "" THEN PFail(s.err, builder, s.rest)
        ELSE LET r == set_non_empty(builder, slot, s.value)
             IN  [err |-> r.err, builder |-> r.builder, rest |-> s.rest]

(* if let Some(m) = decode_utf8_string(&mut reader)? { builder.authentication_method(m)? } *)
prop_authentication_method(reader, builder) ==
    LET s == decode_utf8_string(reader)
    IN  IF s.err # "" THEN PFail(s.err, builder, s.rest)
        ELSE IF s.value = None THEN [err |-> "", builder |-> builder, rest |-> s.rest]
        ELSE LET r == check_and_set(builder, "authentication_method", Unwrap(s.value))
             IN  [err |-> r.err, builder |-> r.builder, rest |-> s.rest]

(* end_of_stream!(remaining < 4);
   builder.subscription_identifier(decode_variable_integer(&mut reader)?)? *)
prop_subscription_identifier(reader, builder) ==
    IF Len(reader) < 4 THEN PFail("EndOfStream", builder, reader)
    ELSE LET v == decode_variable_integer(reader)
         IN  IF v.err # "" THEN PFail(v.err, builder, v.rest)
             ELSE LET r == check_and_set(builder, "subscription_identifier", v.value)
                  IN  [err |-> r.err, builder |-> r.builder, rest |-> v.rest]

(* Property::UserProperty: two strings; the pair is kept only when both are
   non-empty *)
prop_user_property(reader, builder) ==
    LET k == decode_utf8_string(reader)
    IN  IF k.err # "" THEN PFail(k.err, builder, k.rest)
        ELSE LET v == decode_utf8_string(k.rest)
             IN  IF v.err # "" THEN PFail(v.err, builder, v.rest)
                 ELSE IF IsSome(k.value) /\ IsSome(v.value)
                 THEN [err |-> "",
                       builder |-> user_property(builder, <<Unwrap(k.value), Unwrap(v.value)>>),
                       rest |-> v.rest]
                 ELSE [err |-> "", builder |-> builder, rest |-> v.rest]

(* pubres.rs: the match of ResponseProperties::try_from.  ReasonString is
   stored with builder.response_topic *)
ResponseProperties_arm(property, reader, builder) ==
    CASE property = ReasonString -> prop_string(reader, builder, "response_topic")
      [] property = UserProperty -> prop_user_property(reader, builder)
      [] OTHER -> PFail("UnacceptableProperty", builder, reader)

(* publish.rs: the match of decode_publish_properties *)
decode_publish_properties_arm(property, reader, builder) ==
    CASE property = PayloadFormatIndicator -> prop_bool(reader, builder, "payload_format_indicator")
      [] property = MessageExpireInterval -> prop_u32(reader, builder, "message_expire_interval")
      [] property = ContentType -> prop_string(reader, builder, "content_type")
      [] property = ResponseTopic -> prop_string(reader, builder, "response_topic")
      [] property = CorrelationData -> PFail("panic", builder, reader)
      [] property = UserProperty -> prop_user_property(reader, builder)
      [] property = TopicAlias -> prop_u16(reader, builder, "topic_alias")
      [] property = SubscriptionIdentifier -> prop_subscription_identifier(reader, builder)
      [] OTHER -> PFail("UnacceptableProperty", builder, reader)

(* connack.rs: the match of decode_connack_properties *)
decode_connack_properties_arm(property, reader, builder) ==
    CASE property = SessionExpireInterval -> prop_u32(reader, builder, "session_expire_interval")
      [] property = ReceiveMaximum -> prop_u16(reader, builder, "receive_maximum")
      [] property = MaximumQoS -> prop_qos(reader, builder)
      [] property = RetainAvailable -> prop_bool(reader, builder, "retain_available")
      [] property = MaximumPacketSize -> prop_u32(reader, builder, "maximum_packet_size")
      [] property = AssignedClientIdentifier ->
            prop_string(reader, builder, "assigned_client_identifier")
      [] property = TopicAliasMaximum -> prop_u16(reader, builder, "topic_alias_maximum")
      [] property = ReasonString -> prop_string(reader, builder, "response_topic")
      [] property = UserProperty -> prop_user_property(reader, builder)
      [] property = WildcardSubscriptionAvailable ->
            prop_bool(reader, builder, "wildcard_subscription_available")
      [] property = SubscriptionIdentifierAvailable ->
            prop_bool(reader, builder, "subscription_identifier_available")
      [] property = SharedSubscriptionAvailable ->
            prop_bool(reader, builder, "shared_subscription_available")
      [] property = ServerKeepAlive -> prop_u16(reader, builder, "server_keep_alive")
      [] property = AuthenticationMethod -> PFail("panic", builder, reader)
      [] property = AuthenticationData -> PFail("panic", builder, reader)
      [] OTHER -> PFail("UnacceptableProperty", builder, reader)

(* disconnect.rs: the match of decode_disconnect_properties *)
decode_disconnect_properties_arm(property, reader, builder) ==
    CASE property = SessionExpireInterval -> prop_u32(reader, builder, "session_expire_interval")
      [] property = UserProperty -> prop_user_property(reader, builder)
      [] property = ReasonString -> prop_string(reader, builder, "response_topic")
      [] property = ServerReference -> prop_string(reader, builder, "server_reference")
      [] OTHER -> PFail("UnacceptableProperty", builder, reader)

(* subscribe.rs: the match of decode_subscribe_properties *)
decode_subscribe_properties_arm(property, reader, builder) ==
    CASE property = SubscriptionIdentifier -> prop_subscription_identifier(reader, builder)
      [] property = UserProperty -> prop_user_property(reader, builder)
      [] OTHER -> PFail("UnacceptableProperty", builder, reader)

(* connect.rs: the match of ConnectProperties::try_from.  There is no arm for
   AuthenticationData *)
ConnectProperties_arm(property, reader, builder) ==
    CASE property = SessionExpireInterval -> prop_u32(reader, builder, "session_expire_interval")
      [] property = ReceiveMaximum -> prop_u16(reader, builder, "receive_maximum")
      [] property = MaximumPacketSize -> prop_u32(reader, builder, "maximum_packet_size")
      [] property = TopicAliasMaximum -> prop_u16(reader, builder, "topic_alias_maximum")
      [] property = RequestResponseInformation ->
            prop_bool(reader, builder, "request_response_information")
      [] property = RequestProblemInformation ->
            prop_bool(reader, builder, "request_problem_information")
      [] property = UserProperty -> prop_user_property(reader, builder)
      [] property = AuthenticationMethod -> prop_authentication_method(reader, builder)
      [] OTHER -> PFail("UnacceptableProperty", builder, reader)

(* will.rs: the match of WillProperties::try_from *)
WillProperties_arm(property, reader, builder) ==
    CASE property = WillDelayInterval -> prop_u32(reader, builder, "will_delay_interval")
      [] property = PayloadFormatIndicator -> prop_bool(reader, builder, "payload_format_indicator")
      [] property = MessageExpireInterval -> prop_u32(reader, builder, "message_expire_interval")
      [] property = ContentType -> prop_string(reader, builder, "content_type")
      [] property = ResponseTopic -> prop_string(reader, builder, "response_topic")
      [] property = CorrelationData -> PFail("panic", builder, reader)
      [] property = UserProperty -> prop_user_property(reader, builder)
      [] OTHER -> PFail("UnacceptableProperty", builder, reader)

(* auth.rs: the match of AuthProperties::try_from *)
AuthProperties_arm(property, reader, builder) ==
    CASE property = AuthenticationMethod -> prop_authentication_method(reader, builder)
      [] property = AuthenticationData -> PFail("panic", builder, reader)
      [] property = ReasonString -> prop_string(reader, builder, "response_topic")
      [] property = UserProperty -> prop_user_property(reader, builder)
      [] OTHER -> PFail("UnacceptableProperty", builder, reader)

(* unsubscribe.rs: the match of decode_unsubscribe_properties *)
decode_unsubscribe_properties_arm(property, reader, builder) ==
    CASE property = UserProperty -> prop_user_property(reader, builder)
      [] OTHER -> PFail("UnacceptableProperty", builder, reader)

PropertyArm(kind, property, reader, builder) ==
    CASE kind = "pubres"     -> ResponseProperties_arm(property, reader, builder)
      [] kind = "connect"    -> ConnectProperties_arm(property, reader, builder)
      [] kind = "will"       -> WillProperties_arm(property, reader, builder)
      [] kind = "auth"       -> AuthProperties_arm(property, reader, builder)
      [] kind = "unsubscribe" -> decode_unsubscribe_properties_arm(property, reader, builder)
      [] kind = "publish"    -> decode_publish_properties_arm(property, reader, builder)
      [] kind = "connack"    -> decode_connack_properties_arm(property, reader, builder)
      [] kind = "disconnect" -> decode_disconnect_properties_arm(property, reader, builder)
      [] kind = "subscribe"  -> decode_subscribe_properties_arm(property, reader, builder)

(* the loop shared by all property decoders:
   while reader.has_remaining() { id = decode_variable_integer?; property = id.try_into()?; match } *)
RECURSIVE decode_properties_loop(_, _, _)
decode_properties_loop(kind, reader, builder) ==
    IF Len(reader) = 0 THEN [err |-> "", builder |-> builder]
    ELSE LET id == decode_variable_integer(reader)
         IN  IF id.err # "" THEN [err |-> id.err, builder |-> builder]
             ELSE IF id.value \notin PropertyIds
             THEN [err |-> "MalformedPropertyType", builder |-> builder]
             ELSE LET matched(a) ==
                          IF a.err # "" THEN [err |-> a.err, builder |-> builder]
                          ELSE decode_properties_loop(kind, a.rest, a.builder)
                  IN  matched(PropertyArm(kind, id.value, id.rest, builder))

(* pubres.rs: TryFrom<Bytes> for ResponseProperties (ends with builder.pubres()) *)
ResponseProperties_try_from(reader) ==
    LET built(r) == [err |-> r.err, value |-> pubres(r.builder)]
    IN  built(decode_properties_loop("pubres", reader, PropertiesBuilder_default))

decode_publish_properties(reader) ==
    LET built(r) == [err |-> r.err, value |-> publish(r.builder)]
    IN  built(decode_properties_loop("publish", reader, PropertiesBuilder_default))

decode_connack_properties(reader) ==
    LET built(r) == [err |-> r.err, value |-> connack(r.builder)]
    IN  built(decode_properties_loop("connack", reader, PropertiesBuilder_default))

decode_disconnect_properties(reader) ==
    LET built(r) == [err |-> r.err, value |-> disconnect(r.builder)]
    IN  built(decode_properties_loop("disconnect", reader, PropertiesBuilder_default))

decode_subscribe_properties(reader) ==
    LET built(r) == [err |-> r.err, value |-> subscribe(r.builder)]
    IN  built(decode_properties_loop("subscribe", reader, PropertiesBuilder_default))

(***************************************************************************)
(* Packet bodies: decoders.  A control packet is a record with a type      *)
(* field naming the ControlPacket variant.                                 *)
(***************************************************************************)

DErr(e) == [err |-> e, value |-> [type |-> "none"]]
DOk(p) == [err |-> "", value |-> p]

(* TryFrom<Bytes> for PublishResponse with UnspecifiedError as the reason of
   a body without tail *)
PublishResponse_try_from_unspecified(type, reader) ==
    IF Len(reader) < 2 THEN DErr("EndOfStream")
    ELSE LET packet_identifier == get_u16(reader)
             r2 == Drop(reader, 2)
             reason == IF Len(r2) > 0 THEN ReasonCode_try_from(r2[1])
                       ELSE [err |-> "", value |-> UnspecifiedError]
             plen == IF Len(r2) > 0 THEN decode_variable_integer(Drop(r2, 1))
                     ELSE [err |-> "", value |-> 0, rest |-> r2, overflow |-> FALSE]
         IN  IF reason.err # "" THEN DErr(reason.err)
             ELSE IF plen.err # "" THEN DErr(plen.err)
             ELSE IF plen.value > Len(plen.rest) THEN DErr("panic")
             ELSE LET built(properties) ==
                          IF properties.err # "" THEN DErr(properties.err)
                          ELSE DOk([type |-> type, packet_identifier |-> packet_identifier,
                                    reason_code |-> reason.value,
                                    properties |-> properties.value])
                  IN  built(ResponseProperties_try_from(Take(plen.rest, plen.value)))

(* pubres.rs: TryFrom<Bytes> for PublishResponse; type is the variant the
   framing decoder wraps it in.  reader.slice(..n) aborts when n exceeds the
   bytes left; bytes after the properties are ignored. *)
PublishResponse_try_from(type, reader) ==
    IF Len(reader) < 2 THEN DErr("EndOfStream")
    ELSE LET packet_identifier == get_u16(reader)
             r2 == Drop(reader, 2)
             reason == IF Len(r2) > 0 THEN ReasonCode_try_from(r2[1])
                       ELSE [err |-> "", value |-> Success]
             plen == IF Len(r2) > 0 THEN decode_variable_integer(Drop(r2, 1))
                     ELSE [err |-> "", value |-> 0, rest |-> r2, overflow |-> FALSE]
         IN  IF reason.err # "" THEN DErr(reason.err)
             ELSE IF plen.err # "" THEN DErr(plen.err)
             ELSE IF plen.value > Len(plen.rest) THEN DErr("panic")
             ELSE LET built(properties) ==
                          IF properties.err # "" THEN DErr(properties.err)
                          ELSE DOk([type |-> type, packet_identifier |-> packet_identifier,
                                    reason_code |-> reason.value,
                                    properties |-> properties.value])
                  IN  built(ResponseProperties_try_from(Take(plen.rest, plen.value)))

(* publish.rs: decode_publish.  reader.split_to(n) aborts when n exceeds the
   bytes left. *)
decode_publish(dup, qos, retain, reader) ==
    IF Len(reader) < 3 THEN DErr("EndOfStream")
    ELSE LET topic == decode_utf8_string(reader)
         IN  IF topic.err # "" THEN DErr(topic.err)
             ELSE IF topic.value = None THEN DErr("TopicFilterInvalid")
             ELSE IF qos # 0 /\ Len(topic.rest) < 2 THEN DErr("EndOfStream")
             ELSE LET packet_identifier == IF qos = 0 THEN None
                                           ELSE Some(get_u16(topic.rest))
                      r2 == IF qos = 0 THEN topic.rest ELSE Drop(topic.rest, 2)
                      plen == decode_variable_integer(r2)
                  IN  IF plen.err # "" THEN DErr(plen.err)
                      ELSE IF plen.value > Len(plen.rest) THEN DErr("panic")
                      ELSE LET built(properties) ==
                                   IF properties.err # "" THEN DErr(properties.err)
                                   ELSE DOk([type |-> "Publish", dup |-> dup, qos |-> qos,
                                             retain |-> retain,
                                             topic_name |-> Unwrap(topic.value),
                                             packet_identifier |-> packet_identifier,
                                             properties |-> properties.value,
                                             payload |-> Drop(plen.rest, plen.value)])
                           IN  built(decode_publish_properties(Take(plen.rest, plen.value)))

(* connack.rs: decode_connack *)
decode_connack(reader) ==
    IF Len(reader) < 3 THEN DErr("EndOfStream")
    ELSE LET flags == reader[1]
             reason == ReasonCode_try_from(reader[2])
             plen == decode_variable_integer(Drop(reader, 2))
         IN  IF reason.err # "" THEN DErr(reason.err)
             ELSE IF plen.err # "" THEN DErr(plen.err)
             ELSE IF plen.value > Len(plen.rest) THEN DErr("panic")
             ELSE LET built(properties) ==
                          IF properties.err # "" THEN DErr(properties.err)
                          ELSE DOk([type |-> "ConnAck", session_present |-> flags % 2 = 1,
                                    reason_code |-> reason.value,
                                    properties |-> properties.value])
                  IN  built(decode_connack_properties(Take(plen.rest, plen.value)))

(* disconnect.rs: decode_disconnect *)
decode_disconnect(reader) ==
    LET reason == IF Len(reader) > 0 THEN ReasonCode_try_from(reader[1])
                  ELSE [err |-> "", value |-> Success]
        r2 == IF Len(reader) > 0 THEN Drop(reader, 1) ELSE reader
        plen == IF Len(r2) > 0 THEN decode_variable_integer(r2)
                ELSE [err |-> "", value |-> 0, rest |-> r2, overflow |-> FALSE]
    IN  IF reason.err # "" THEN DErr(reason.err)
        ELSE IF plen.err # "" THEN DErr(plen.err)
        ELSE IF plen.value > Len(plen.rest) THEN DErr("panic")
        ELSE LET built(properties) ==
                     IF properties.err # "" THEN DErr(properties.err)
                     ELSE DOk([type |-> "Disconnect", reason_code |-> reason.value,
                               properties |-> properties.value])
             IN  built(decode_disconnect_properties(Take(plen.rest, plen.value)))

(* types.rs: TryFrom<u8> for SubscriptionOptions *)
SubscriptionOptions_try_from(value) ==
    LET qos == QoS_try_from(value % 4)
        retain == Retain_try_from((value \div 16) % 4)
    IN  IF qos.err # "" THEN [err |-> qos.err, value |-> << >>]
        ELSE IF retain.err # "" THEN [err |-> retain.err, value |-> << >>]
        ELSE [err |-> "",
              value |-> [qos |-> qos.value, nl |-> (value \div 4) % 2 = 1,
                         rap |-> (value \div 8) % 2 = 1, retain |-> retain.value]]

(* types.rs: From<SubscriptionOptions> for u8 *)
SubscriptionOptions_into(o) ==
    o.qos + BoolU8(o.nl) * 4 + BoolU8(o.rap) * 8 + o.retain * 16

(* subscribe.rs: decode_subscribe_payload *)
RECURSIVE decode_subscribe_payload(_, _)
decode_subscribe_payload(reader, topic_filter) ==
    IF Len(reader) = 0 THEN [err |-> "", value |-> topic_filter]
    ELSE LET topic == decode_utf8_string(reader)
         IN  IF topic.err # "" THEN [err |-> topic.err, value |-> << >>]
             ELSE IF topic.value = None THEN [err |-> "TopicFilterInvalid", value |-> << >>]
             ELSE IF Len(topic.rest) < 1 THEN [err |-> "EndOfStream", value |-> << >>]
             ELSE LET o == SubscriptionOptions_try_from(topic.rest[1])
                  IN  IF o.err # "" THEN [err |-> o.err, value |-> << >>]
                      ELSE decode_subscribe_payload(
                               Drop(topic.rest, 1),
                               Append(topic_filter, <<Unwrap(topic.value), o.value>>))

(* subscribe.rs: decode_subscribe *)
decode_subscribe(reader) ==
    IF Len(reader) < 2 THEN DErr("EndOfStream")
    ELSE LET packet_identifier == get_u16(reader)
             plen == decode_variable_integer(Drop(reader, 2))
         IN  IF plen.err # "" THEN DErr(plen.err)
             ELSE IF plen.value > Len(plen.rest) THEN DErr("panic")
             ELSE LET built(properties, filters) ==
                          IF properties.err # "" THEN DErr(properties.err)
                          ELSE IF filters.err # "" THEN DErr(filters.err)
                          ELSE DOk([type |-> "Subscribe",
                                    packet_identifier |-> packet_identifier,
                                    properties |-> properties.value,
                                    topic_filters |-> filters.value])
                  IN  built(decode_subscribe_properties(Take(plen.rest, plen.value)),
                            decode_subscribe_payload(Drop(plen.rest, plen.value), << >>))

(* subscribe.rs: the reason code loop of SubAck::try_from *)
RECURSIVE decode_reason_codes(_, _)
decode_reason_codes(reader, reason_codes) ==
    IF Len(reader) = 0 THEN [err |-> "", value |-> reason_codes]
    ELSE LET r == ReasonCode_try_from(reader[1])
         IN  IF r.err # "" THEN [err |-> r.err, value |-> << >>]
             ELSE decode_reason_codes(Tail(reader), Append(reason_codes, r.value))

(* subscribe.rs: TryFrom<Bytes> for SubAck.  The properties are read from
   reader.slice(..n), which leaves the reader where it was: the reason code
   loop starts at the first byte after the properties length. *)
SubAck_try_from(type, reader) ==
    IF Len(reader) < 2 THEN DErr("EndOfStream")
    ELSE LET packet_identifier == get_u16(reader)
             plen == decode_variable_integer(Drop(reader, 2))
         IN  IF plen.err # "" THEN DErr(plen.err)
             ELSE IF plen.value > Len(plen.rest) THEN DErr("panic")
             ELSE LET built(properties, codes) ==
                          IF properties.err # "" THEN DErr(properties.err)
                          ELSE IF codes.err # "" THEN DErr(codes.err)
                          ELSE DOk([type |-> type, packet_identifier |-> packet_identifier,
                                    properties |-> properties.value,
                                    reason_codes |-> codes.value])
                  IN  built(ResponseProperties_try_from(Take(plen.rest, plen.value)),
                            decode_reason_codes(plen.rest, << >>))

(***************************************************************************)
(* Packet bodies: sizes and encoders                                       *)
(***************************************************************************)

(* macros check_size_of! (size_of_val of the value, plus the id byte) and
   check_size_of_string! / check_size_of_bytes! *)
check_size_of(opt, size_of_val) == IF IsSome(opt) THEN size_of_val + 1 ELSE 0
check_size_of_string(opt) == IF IsSome(opt) THEN Len(Unwrap(opt)) + 3 ELSE 0

(* user_properties.iter().map(|(x, y)| 5 + x.len() + y.len()).sum() *)
RECURSIVE user_properties_size(_)
user_properties_size(ups) ==
    IF ups = << >> THEN 0
    ELSE 5 + Len(Head(ups)[1]) + Len(Head(ups)[2]) + user_properties_size(Tail(ups))

(* macros encode_property_u8! .. encode_property_user_properties! *)
encode_property_u8(id, opt) == IF IsSome(opt) THEN <<id, Unwrap(opt)>> ELSE << >>
encode_property_bool(id, opt) == IF IsSome(opt) THEN <<id, BoolU8(Unwrap(opt))>> ELSE << >>
encode_property_u16(id, opt) == IF IsSome(opt) THEN <<id>> \o put_u16(Unwrap(opt)) ELSE << >>
encode_property_u32(id, opt) == IF IsSome(opt) THEN <<id>> \o put_u32(Unwrap(opt)) ELSE << >>
encode_property_string(id, opt) ==
    IF IsSome(opt) THEN <<id>> \o encode_utf8_string(Unwrap(opt)) ELSE << >>
encode_property_variable_integer(id, opt) ==
    IF IsSome(opt) THEN <<id>> \o encode_variable_integer(Unwrap(opt)) ELSE << >>
RECURSIVE encode_property_user_properties(_)
encode_property_user_properties(ups) ==
    IF ups = << >> THEN << >>
    ELSE <<UserProperty>> \o encode_utf8_string(Head(ups)[1])
         \o encode_utf8_string(Head(ups)[2])
         \o encode_property_user_properties(Tail(ups))

(* pubres.rs: PropertiesSize for ResponseProperties *)
ResponseProperties_size(p) ==
    check_size_of_string(p.reason_string) + user_properties_size(p.user_properties)

(* pubres.rs: Encoder<ResponseProperties> *)
encode_ResponseProperties(p) ==
    encode_variable_integer(ResponseProperties_size(p))
    \o encode_property_string(ReasonString, p.reason_string)
    \o encode_property_user_properties(p.user_properties)

(* pubres.rs: RemainingLength for PublishResponse *)
PublishResponse_remaining_length(msg) ==
    LET properties_length == ResponseProperties_size(msg.properties)
    IN  3 + size_usize(properties_length) + properties_length

(* pubres.rs: Encoder<PublishResponse> *)
encode_PublishResponse(msg) ==
    [err |-> "",
     bytes |-> put_u16(msg.packet_identifier) \o <<msg.reason_code>>
               \o encode_ResponseProperties(msg.properties)]

(* publish.rs: PropertiesSize for PublishProperties.  correlation_data is
   measured with size_of_val of the Bytes handle (four machine words); the
   subscription identifier counts its varint without the id byte. *)
PublishProperties_size(p) ==
    check_size_of(p.payload_format_indicator, 1)
    + check_size_of(p.message_expire_interval, 4)
    + check_size_of(p.topic_alias, 2)
    + check_size_of_string(p.response_topic)
    + check_size_of(p.correlation_data, 32)
    + user_properties_size(p.user_properties)
    + (IF IsSome(p.subscription_identifier)
       THEN size_usize(Unwrap(p.subscription_identifier)) ELSE 0)
    + check_size_of_string(p.content_type)

(* publish.rs: Encoder<PublishProperties>; correlation_data is unimplemented!() *)
encode_PublishProperties(p) ==
    LET head == encode_variable_integer(PublishProperties_size(p))
                \o encode_property_bool(PayloadFormatIndicator, p.payload_format_indicator)
                \o encode_property_u32(MessageExpireInterval, p.message_expire_interval)
                \o encode_property_u16(TopicAlias, p.topic_alias)
                \o encode_property_string(ResponseTopic, p.response_topic)
    IN  IF IsSome(p.correlation_data) THEN [err |-> "panic", bytes |-> head]
        ELSE [err |-> "",
              bytes |-> head
                  \o encode_property_user_properties(p.user_properties)
                  \o encode_property_variable_integer(SubscriptionIdentifier,
                                                      p.subscription_identifier)
                  \o encode_property_string(ContentType, p.content_type)]

(* publish.rs: RemainingLength for Publish *)
Publish_remaining_length(msg) ==
    LET packet_identifier_len == IF IsSome(msg.packet_identifier) THEN 2 ELSE 0
        properties_length == PublishProperties_size(msg.properties)
    IN  Len(msg.topic_name) + 2 + packet_identifier_len
        + size_usize(properties_length) + properties_length + Len(msg.payload)

(* publish.rs: Encoder<Publish>.  On UndefinedPacketIdentifier the topic is
   already in the writer. *)
encode_Publish(msg) ==
    LET topic == encode_utf8_string(msg.topic_name)
        properties == encode_PublishProperties(msg.properties)
    IN  IF msg.qos # 0 /\ msg.packet_identifier = None
        THEN [err |-> "UndefinedPacketIdentifier", bytes |-> topic]
        ELSE LET pid == IF msg.qos # 0 THEN put_u16(Unwrap(msg.packet_identifier))
                        ELSE << >>
             IN  IF properties.err # ""
                 THEN [err |-> properties.err, bytes |-> topic \o pid \o properties.bytes]
                 ELSE [err |-> "",
                       bytes |-> topic \o pid \o properties.bytes \o msg.payload]

(* connack.rs: PropertiesSize for ConnAckProperties *)
ConnAckProperties_size(p) ==
    check_size_of(p.session_expire_interval, 4)
    + check_size_of(p.receive_maximum, 2)
    + check_size_of(p.maximum_qos, 1)
    + check_size_of(p.retain_available, 1)
    + check_size_of(p.maximum_packet_size, 4)
    + check_size_of_string(p.assigned_client_identifier)
    + check_size_of(p.topic_alias_maximum, 2)
    + check_size_of_string(p.reason_string)
    + user_properties_size(p.user_properties)

(* connack.rs: Encoder<ConnAckProperties> *)
encode_ConnAckProperties(p) ==
    encode_variable_integer(ConnAckProperties_size(p))
    \o encode_property_u32(SessionExpireInterval, p.session_expire_interval)
    \o encode_property_u16(ReceiveMaximum, p.receive_maximum)
    \o encode_property_u8(MaximumQoS, p.maximum_qos)
    \o encode_property_bool(RetainAvailable, p.retain_available)
    \o encode_property_u32(MaximumPacketSize, p.maximum_packet_size)
    \o encode_property_string(AssignedClientIdentifier, p.assigned_client_identifier)
    \o encode_property_u16(TopicAliasMaximum, p.topic_alias_maximum)
    \o encode_property_string(ReasonString, p.reason_string)
    \o encode_property_user_properties(p.user_properties)

(* connack.rs: RemainingLength for ConnAck *)
ConnAck_remaining_length(msg) ==
    LET properties_length == ConnAckProperties_size(msg.properties)
    IN  2 + size_usize(properties_length) + properties_length

(* connack.rs: Encoder<ConnAck> *)
encode_ConnAck(msg) ==
    [err |-> "",
     bytes |-> <<BoolU8(msg.session_present), msg.reason_code>>
               \o encode_ConnAckProperties(msg.properties)]

(* disconnect.rs: PropertiesSize for DisconnectProperties *)
DisconnectProperties_size(p) ==
    check_size_of(p.session_expire_interval, 4)
    + check_size_of_string(p.reason_string)
    + user_properties_size(p.user_properties)
    + check_size_of_string(p.server_reference)

(* disconnect.rs: Encoder<DisconnectProperties> *)
encode_DisconnectProperties(p) ==
    encode_variable_integer(DisconnectProperties_size(p))
    \o encode_property_u32(SessionExpireInterval, p.session_expire_interval)
    \o encode_property_string(ReasonString, p.reason_string)
    \o encode_property_user_properties(p.user_properties)
    \o encode_property_string(ServerReference, p.server_reference)

(* disconnect.rs: RemainingLength for Disconnect *)
Disconnect_remaining_length(msg) ==
    LET len == DisconnectProperties_size(msg.properties)
    IN  1 + size_usize(len) + len

(* disconnect.rs: Encoder<Disconnect> *)
encode_Disconnect(msg) ==
    [err |-> "",
     bytes |-> <<msg.reason_code>> \o encode_DisconnectProperties(msg.properties)]

(* subscribe.rs: PropertiesSize for SubscribeProperties *)
SubscribeProperties_size(p) ==
    (IF IsSome(p.subscription_identifier)
     THEN size_usize(Unwrap(p.subscription_identifier)) ELSE 0)
    + user_properties_size(p.user_properties)

(* subscribe.rs: Encoder<SubscribeProperties> *)
encode_SubscribeProperties(p) ==
    encode_variable_integer(SubscribeProperties_size(p))
    \o encode_property_variable_integer(SubscriptionIdentifier, p.subscription_identifier)
    \o encode_property_user_properties(p.user_properties)

RECURSIVE topic_filters_size(_)
topic_filters_size(tfs) ==
    IF tfs = << >> THEN 0
    ELSE 2 + Len(Head(tfs)[1]) + 1 + topic_filters_size(Tail(tfs))

(* subscribe.rs: RemainingLength for Subscribe *)
Subscribe_remaining_length(msg) ==
    LET len == SubscribeProperties_size(msg.properties)
    IN  2 + size_usize(len) + len + topic_filters_size(msg.topic_filters)

RECURSIVE encode_topic_filters(_)
encode_topic_filters(tfs) ==
    IF tfs = << >> THEN << >>
    ELSE encode_utf8_string(Head(tfs)[1]) \o <<SubscriptionOptions_into(Head(tfs)[2])>>
         \o encode_topic_filters(Tail(tfs))

(* subscribe.rs: Encoder<Subscribe> *)
encode_Subscribe(msg) ==
    [err |-> "",
     bytes |-> put_u16(msg.packet_identifier)
               \o encode_SubscribeProperties(msg.properties)
               \o encode_topic_filters(msg.topic_filters)]

(* subscribe.rs: RemainingLength for SubAck *)
SubAck_remaining_length(msg) ==
    LET len == ResponseProperties_size(msg.properties)
    IN  2 + size_usize(len) + len + Len(msg.reason_codes)

(* subscribe.rs: Encoder<SubAck> *)
encode_SubAck(msg) ==
    [err |-> "",
     bytes |-> put_u16(msg.packet_identifier)
               \o encode_ResponseProperties(msg.properties)
               \o msg.reason_codes]

(***************************************************************************)
(* Framing: encoder.rs Encoder<ControlPacket>, decoder.rs Decoder          *)
(***************************************************************************)

(* encoder.rs: encode_fixed_header *)
encode_fixed_header(packet_type, remaining_length) ==
    <<PacketType_into(packet_type)>> \o encode_variable_integer(remaining_length)

(* one arm of MqttCodec::encode: the fixed header, then the body encoder *)
Framed(packet_type, remaining_length, body) ==
    [err |-> body.err,
     bytes |-> encode_fixed_header(packet_type, remaining_length) \o body.bytes]

(* encoder.rs: Encoder<ControlPacket> for MqttCodec.  The result holds the
   bytes put into the writer, also when the body encoder fails.  UnSubAck is
   framed with the SubAck encoder; UnSubscribe (remaining_length) and Auth
   are unimplemented!(). *)
MqttCodec_encode(packet) ==
    CASE packet.type = "ConnAck" ->
            Framed([name |-> "ConnAck"], ConnAck_remaining_length(packet),
                   encode_ConnAck(packet))
      [] packet.type = "Publish" ->
            Framed([name |-> "Publish", dup |-> packet.dup, qos |-> packet.qos,
                    retain |-> packet.retain],
                   Publish_remaining_length(packet), encode_Publish(packet))
      [] packet.type \in {"PubAck", "PubRec", "PubRel", "PubComp"} ->
            Framed([name |-> packet.type], PublishResponse_remaining_length(packet),
                   encode_PublishResponse(packet))
      [] packet.type = "Subscribe" ->
            Framed([name |-> "Subscribe"], Subscribe_remaining_length(packet),
                   encode_Subscribe(packet))
      [] packet.type \in {"SubAck", "UnSubAck"} ->
            Framed([name |-> packet.type], SubAck_remaining_length(packet),
                   encode_SubAck(packet))
      [] packet.type = "UnSubscribe" -> [err |-> "panic", bytes |-> << >>]
      [] packet.type = "PingReq" -> [err |-> "", bytes |-> <<192, 0>>]
      [] packet.type = "PingResp" -> [err |-> "", bytes |-> <<208, 0>>]
      [] packet.type = "Disconnect" ->
            Framed([name |-> "Disconnect"], Disconnect_remaining_length(packet),
                   encode_Disconnect(packet))
      [] packet.type = "Auth" -> [err |-> "panic", bytes |-> << >>]

(* decoder.rs *)
MIN_FIXED_HEADER_LEN == 2

(* types.rs: PacketPart *)
FixedHeader == [name |-> "FixedHeader"]
VariableHeader(remaining, packet_type) ==
    [name |-> "VariableHeader", remaining |-> remaining, packet_type |-> packet_type]

(* decoder.rs: the match on packet_type of MqttCodec::decode *)
decode_body(packet_type, packet) ==
    CASE packet_type.name = "ConnAck" -> decode_connack(packet)
      [] packet_type.name = "Publish" ->
            decode_publish(packet_type.dup, packet_type.qos, packet_type.retain, packet)
      [] packet_type.name \in {"PubAck", "PubRec", "PubRel", "PubComp"} ->
            PublishResponse_try_from(packet_type.name, packet)
      [] packet_type.name = "Subscribe" -> decode_subscribe(packet)
      [] packet_type.name = "SubAck" -> SubAck_try_from("SubAck", packet)
      [] packet_type.name = "UnSubAck" -> DErr("panic")
      [] packet_type.name = "PingReq" -> DOk([type |-> "PingReq"])
      [] packet_type.name = "PingResp" -> DOk([type |-> "PingResp"])
      [] packet_type.name = "Disconnect" -> decode_disconnect(packet)

(* the outcome of one call of decode: the codec state and the buffer after
   it, and Ok(None) (err = "", some = FALSE), Ok(Some(packet)) or Err(err) *)
Decoded(part, reader, err, some, packet) ==
    [part |-> part, reader |-> reader, err |-> err, some |-> some, packet |-> packet]
NoPacket == [type |-> "none"]

(* decode in state VariableHeader without `self.part = PacketPart::FixedHeader` *)
decode_variable_header_keeps_part(remaining, packet_type, reader) ==
    IF Len(reader) < remaining
    THEN Decoded(VariableHeader(remaining, packet_type), reader, "", FALSE, NoPacket)
    ELSE LET done(r) == Decoded(VariableHeader(remaining, packet_type),
                                Drop(reader, remaining), r.err, r.err = "", r.value)
         IN  done(decode_body(packet_type, Take(reader, remaining)))

(* decoder.rs: MqttCodec::decode in state VariableHeader *)
decode_variable_header(remaining, packet_type, reader) ==
    IF Len(reader) < remaining
    THEN Decoded(VariableHeader(remaining, packet_type), reader, "", FALSE, NoPacket)
    ELSE LET done(r) == Decoded(FixedHeader, Drop(reader, remaining),
                                r.err, r.err = "", r.value)
         IN  done(decode_body(packet_type, Take(reader, remaining)))

(* decoder.rs: MqttCodec::decode in state FixedHeader; it ends by calling
   decode again in state VariableHeader *)
decode_fixed_header(reader, maximum_packet_size) ==
    IF Len(reader) < MIN_FIXED_HEADER_LEN
    THEN Decoded(FixedHeader, reader, "", FALSE, NoPacket)
    ELSE LET packet_type == PacketType_try_from(reader[1])
             remaining == decode_variable_integer(Tail(reader))
         IN  IF packet_type.err # ""
             THEN Decoded(FixedHeader, Tail(reader), packet_type.err, FALSE, NoPacket)
             ELSE IF remaining.err # ""
             THEN Decoded(FixedHeader, remaining.rest, remaining.err, FALSE, NoPacket)
             ELSE IF IsSome(maximum_packet_size)
                     /\ remaining.value + MIN_FIXED_HEADER_LEN > Unwrap(maximum_packet_size)
             THEN Decoded(FixedHeader, remaining.rest, "PacketTooLarge", FALSE, NoPacket)
             ELSE decode_variable_header(remaining.value, packet_type.value, remaining.rest)

(* decoder.rs: Decoder for MqttCodec::decode *)
MqttCodec_decode(part, reader, maximum_packet_size) ==
    IF part.name = "FixedHeader"
    THEN decode_fixed_header(reader, maximum_packet_size)
    ELSE decode_variable_header(part.remaining, part.packet_type, reader)

(* decode called on one buffer until it reports need-more or fails: the
   packets returned, the error if any, and what is left *)
RECURSIVE decode_all(_, _, _, _)
decode_all(part, reader, maximum_packet_size, packets) ==
    LET step(d) ==
            IF d.err # "" THEN [packets |-> packets, err |-> d.err]
            ELSE IF ~d.some THEN [packets |-> packets, err |-> ""]
            ELSE decode_all(d.part, d.reader, maximum_packet_size,
                            Append(packets, d.packet))
    IN  step(MqttCodec_decode(part, reader, maximum_packet_size))

(***************************************************************************)
(* The codec as a state machine: an encoder writes frames to a byte        *)
(* stream, the transport hands the bytes over in chunks, and a framing     *)
(* decoder (as driven by tokio_util's Framed, client.rs recv) is called    *)
(* until it reports need-more after every chunk.                           *)
(***************************************************************************)

VARIABLES
    sent,                 \* the packets the encoder accepted, in order
    encode_err,           \* the error of the last encode call, "" if none
    wire,                 \* bytes written by the encoder and not yet read
    fed,                  \* number of bytes read from the wire so far
    reader,               \* the decoder's buffer (BytesMut)
    part,                 \* MqttCodec.part
    maximum_packet_size,  \* MqttCodec.maximum_packet_size
    is_readable,          \* the buffer may hold a frame: decode is called next
    received,             \* the packets decode returned, in order
    decode_err            \* the error decode returned, "" if none

codecVars == <<sent, encode_err, wire, fed, reader, part, maximum_packet_size,
               is_readable, received, decode_err>>

(* The client (client.rs): its packet identifier allocator, its options and
   the position and locals of the call in progress. *)
VARIABLES
    identifier,           \* PacketIdentifier.identifier
    used,                 \* PacketIdentifier.used: the identifiers whose bit is set
    timeout,              \* Client.timeout, the optional per-receive timeout
    pc,                   \* where the call in progress is suspended, "idle" if none
    op,                   \* the locals of the call in progress
    log,                  \* the packets the call sent and received, in wire order
    result,               \* what the last call returned
    calls,                \* number of calls made so far
    awaiting,             \* identifiers whose handshake is awaiting its ack
    leaked                \* identifiers in use when their call ended in a timeout error

clientVars == <<identifier, used, timeout, pc, op, log, result, calls, awaiting, leaked>>

vars == <<codecVars, clientVars>>

NoOp == [kind |-> "none"]
NoResult == [kind |-> "none"]

(* the client right after MQTTOptions::connect: PacketIdentifier::default() *)
ClientNew ==
    /\ identifier = 0
    /\ used = {}
    /\ timeout = None
    /\ pc = "idle"
    /\ op = NoOp
    /\ log = << >>
    /\ result = NoResult
    /\ calls = 0
    /\ awaiting = {}
    /\ leaked = {}

MaxPackets == 2
MaxChunk == 3
LongPayloadLen == 124

NoProperties == pubres(PropertiesBuilder_default)
NoPublishProperties == publish(PropertiesBuilder_default)

TopicA == <<97>>
PayloadHi == <<104, 105>>

(* a Publish as the client builds it (client.rs at_least_once_publish) *)
MkPublish(dup, qos, retain, topic_name, packet_identifier, properties, payload) ==
    [type |-> "Publish", dup |-> dup, qos |-> qos, retain |-> retain,
     topic_name |-> topic_name, packet_identifier |-> packet_identifier,
     properties |-> properties, payload |-> payload]

(* a PubAck / PubRec / PubRel / PubComp *)
MkResponse(type, packet_identifier, reason_code, properties) ==
    [type |-> type, packet_identifier |-> packet_identifier,
     reason_code |-> reason_code, properties |-> properties]

(* the frames of the chunking model: one- and two-byte remaining lengths *)
FramePackets ==
    { [type |-> "PingReq"],
      MkResponse("PubAck", 42, Success, NoProperties),
      MkPublish(FALSE, 1, FALSE, TopicA, Some(42), NoPublishProperties, PayloadHi),
      MkPublish(FALSE, 0, TRUE, TopicA, None, NoPublishProperties, Zeros(LongPayloadLen)) }

MaximumPacketSizes == {None, Some(8), Some(130)}

CodecInit ==
    /\ sent = << >>
    /\ encode_err = ""
    /\ wire = << >>
    /\ fed = 0
    /\ reader = << >>
    /\ part = FixedHeader
    /\ is_readable = FALSE
    /\ received = << >>
    /\ decode_err = ""

(* Framed::send -> MqttCodec::encode(packet, write buffer): what the encoder
   put into the buffer goes to the wire, also when it failed *)
Encode(packet) ==
    /\ Len(sent) < MaxPackets
    /\ encode_err = ""
    /\ LET e == MqttCodec_encode(packet)
       IN  /\ wire' = wire \o e.bytes
           /\ encode_err' = e.err
           /\ sent' = IF e.err = "" THEN Append(sent, packet) ELSE sent
    /\ UNCHANGED <<fed, reader, part, maximum_packet_size, is_readable, received,
                   decode_err>>
    /\ UNCHANGED clientVars

(* the transport appends the next n bytes to the decoder's buffer; Framed
   reads only after decode reported need-more *)
Read(n) ==
    /\ ~is_readable
    /\ decode_err = ""
    /\ n \in 1 .. Len(wire)
    /\ reader' = reader \o Take(wire, n)
    /\ wire' = Drop(wire, n)
    /\ fed' = fed + n
    /\ is_readable' = TRUE
    /\ UNCHANGED <<sent, encode_err, part, maximum_packet_size, received, decode_err>>
    /\ UNCHANGED clientVars

(* one call of MqttCodec::decode on the buffer *)
Decode ==
    /\ is_readable
    /\ decode_err = ""
    /\ LET returned(d) ==
               /\ part' = d.part
               /\ reader' = d.reader
               /\ decode_err' = d.err
               /\ received' = IF d.some THEN Append(received, d.packet) ELSE received
               /\ is_readable' = (d.err = "" /\ d.some)
       IN  returned(MqttCodec_decode(part, reader, maximum_packet_size))
    /\ UNCHANGED <<sent, encode_err, wire, fed, maximum_packet_size>>
    /\ UNCHANGED clientVars

(* chunk sizes: up to MaxChunk bytes, or everything that is on the wire *)
ChunkSizes == (1 .. MaxChunk) \cup {Len(wire)}

CodecInit0 ==
    /\ CodecInit
    /\ ClientNew

CodecNext ==
    \/ \E packet \in FramePackets : Encode(packet)
    \/ \E n \in ChunkSizes : Read(n)
    \/ Decode

SpecCodecInit ==
    /\ CodecInit0
    /\ maximum_packet_size \in MaximumPacketSizes

SpecCodec == SpecCodecInit /\ [][CodecNext]_vars

(***************************************************************************)
(* Round trips: one packet is encoded, its bytes reach a fresh decoder in  *)
(* one piece, and decode is called until it reports need-more.             *)
(***************************************************************************)

(* sample values of the property slots, by the type of the slot *)
BoolSlots ==
    {"payload_format_indicator", "retain_available", "wildcard_subscription_available",
     "subscription_identifier_available", "shared_subscription_available"}
U16Slots == {"topic_alias", "receive_maximum", "topic_alias_maximum", "server_keep_alive"}
U32Slots == {"message_expire_interval", "session_expire_interval", "maximum_packet_size"}
StringSlots ==
    {"content_type", "response_topic", "assigned_client_identifier",
     "response_information", "server_reference", "reason_string",
     "authentication_method", "authentication_data"}

SlotValues(slot) ==
    CASE slot \in BoolSlots -> {FALSE, TRUE}
      [] slot \in U16Slots -> {258}
      [] slot \in U32Slots -> {16909060}
      [] slot \in StringSlots -> {<< >>, <<97>>, <<97, 98>>}
      [] slot = "maximum_qos" -> {0, 1}
      [] slot = "subscription_identifier" -> {1, 200}

SampleUserProperties ==
    { << >>,
      << <<<<107>>, <<118>>>> >>,
      << <<<<107>>, <<118>>>>, <<<<107>>, <<119>>>> >>,
      << <<<<107>>, << >>>> >> }

(* one non-empty value of each slot *)
SlotValue(slot) ==
    CASE slot \in BoolSlots -> TRUE
      [] slot \in U16Slots -> 258
      [] slot \in U32Slots -> 16909060
      [] slot \in StringSlots -> <<97>>
      [] slot = "maximum_qos" -> 1
      [] slot = "subscription_identifier" -> 200

(* the builders that fill no slot, one slot, or all the given slots *)
Builders(slots) ==
    {PropertiesBuilder_default}
    \cup UNION { { [PropertiesBuilder_default EXCEPT ![slot] = Some(v)] :
                      v \in SlotValues(slot) } : slot \in slots }
    \cup { [PropertiesBuilder_default EXCEPT !.user_properties = ups] :
              ups \in SampleUserProperties }
    \cup { [slot \in DOMAIN PropertiesBuilder_default |->
               IF slot \in slots THEN Some(SlotValue(slot))
               ELSE IF slot = "user_properties" THEN << <<<<107>>, <<118>>>> >>
               ELSE None] }

PublishSlots ==
    {"payload_format_indicator", "message_expire_interval", "topic_alias",
     "response_topic", "subscription_identifier", "content_type"}
ConnAckSlots ==
    {"session_expire_interval", "receive_maximum", "maximum_qos", "retain_available",
     "maximum_packet_size", "assigned_client_identifier", "topic_alias_maximum",
     "reason_string", "wildcard_subscription_available",
     "subscription_identifier_available", "shared_subscription_available",
     "server_keep_alive", "response_information", "server_reference",
     "authentication_method", "authentication_data"}
DisconnectSlots == {"session_expire_interval", "reason_string", "server_reference"}

SampleIdentifiers == {1, 258, 65535}
SampleReasonCodes == {Success, UnspecifiedError}
DefaultOptions == [qos |-> 0, nl |-> FALSE, rap |-> FALSE, retain |-> 0]
SampleTopicFilters ==
    { << <<TopicA, DefaultOptions>> >>,
      << <<TopicA, [qos |-> 2, nl |-> TRUE, rap |-> TRUE, retain |-> 2]>>,
         <<<<98>>, [qos |-> 1, nl |-> FALSE, rap |-> TRUE, retain |-> 1]>> >> }

RoundTripPackets ==
    { MkResponse(type, id, rc, pubres(b)) :
          type \in {"PubAck", "PubRec", "PubRel", "PubComp"}, id \in SampleIdentifiers,
          rc \in SampleReasonCodes, b \in Builders({"reason_string"}) }
    \cup { MkPublish(dup, qos, retain, TopicA, IF qos = 0 THEN None ELSE Some(258),
                     publish(b), payload) :
          dup \in BOOLEAN, qos \in 0 .. 2, retain \in BOOLEAN,
          b \in Builders(PublishSlots), payload \in {<< >>, PayloadHi} }
    \cup { [type |-> "ConnAck", session_present |-> sp, reason_code |-> rc,
            properties |-> connack(b)] :
          sp \in BOOLEAN, rc \in SampleReasonCodes, b \in Builders(ConnAckSlots) }
    \cup { [type |-> "Disconnect", reason_code |-> rc, properties |-> disconnect(b)] :
          rc \in SampleReasonCodes, b \in Builders(DisconnectSlots) }
    \cup { [type |-> "Subscribe", packet_identifier |-> id, properties |-> subscribe(b),
            topic_filters |-> tfs] :
          id \in SampleIdentifiers, b \in Builders({"subscription_identifier"}),
          tfs \in SampleTopicFilters }
    \cup { [type |-> type, packet_identifier |-> id, properties |-> pubres(b),
            reason_codes |-> rcs] :
          type \in {"SubAck", "UnSubAck"}, id \in SampleIdentifiers,
          b \in Builders({"reason_string"}),
          rcs \in {<<Success>>, <<1, UnspecifiedError>>} }
    \cup { [type |-> "PingReq"], [type |-> "PingResp"] }

RoundTripInit ==
    /\ CodecInit0
    /\ maximum_packet_size = None

RoundTripNext ==
    \/ \E packet \in RoundTripPackets : sent = << >> /\ wire = << >> /\ Encode(packet)
    \/ Read(Len(wire))
    \/ Decode

SpecRoundTrip == RoundTripInit /\ [][RoundTripNext]_vars

(* the round trip of the one packet written is over *)
RoundTripDone ==
    /\ Len(sent) = 1
    /\ encode_err = ""
    /\ wire = << >>
    /\ fed > 0
    /\ decode_err # "" \/ ~is_readable

(* C1: for every control packet the encoder accepts, encoding it and feeding
   the bytes to a fresh decoder yields exactly one packet, equal to it. *)
C1_RoundTrip == RoundTripDone => (decode_err = "" /\ received = sent)

(***************************************************************************)
(* The client: identifier.rs and the publish / subscribe calls of          *)
(* client.rs.  A call runs from its start to its return; between two       *)
(* awaits it is one step.                                                  *)
(***************************************************************************)

MaxCalls == 2

(* identifier.rs: identifier is a u16 *)
U16Modulus == 65536
(* client.rs: Duration::from_secs(3) around recv_ack, recv_rec and res_comp *)
AckWindow == 3
(* client.rs: let mut retries = 3 *)
InitialRetries == 3

(* next that returns the candidate without storing it in identifier *)
next_keeps_counter(id, u) ==
    LET packet_identifier == (id + 1) % U16Modulus
    IN  IF packet_identifier \in u
        THEN [value |-> None, identifier |-> id, used |-> u]
        ELSE [value |-> Some(packet_identifier), identifier |-> id,
              used |-> u \cup {packet_identifier}]

(* next that skips the reserved identifier 0 when the counter wraps *)
next_skips_zero(id, u) ==
    LET packet_identifier == IF id = U16Modulus - 1 THEN 1 ELSE id + 1
    IN  IF packet_identifier \in u
        THEN [value |-> None, identifier |-> id, used |-> u]
        ELSE [value |-> Some(packet_identifier), identifier |-> packet_identifier,
              used |-> u \cup {packet_identifier}]

(* next that hands out the candidate without testing its bit *)
next_ignores_used(id, u) ==
    LET packet_identifier == (id + 1) % U16Modulus
    IN  [value |-> Some(packet_identifier), identifier |-> packet_identifier,
         used |-> u \cup {packet_identifier}]

(* next that moves the counter on to the candidate also when it is held *)
next_advances_when_held(id, u) ==
    LET packet_identifier == (id + 1) % U16Modulus
    IN  IF packet_identifier \in u
        THEN [value |-> None, identifier |-> packet_identifier, used |-> u]
        ELSE [value |-> Some(packet_identifier), identifier |-> packet_identifier,
              used |-> u \cup {packet_identifier}]

(* identifier.rs: Iterator for PacketIdentifier::next *)
next(id, u) ==
    LET packet_identifier == (id + 1) % U16Modulus
    IN  IF packet_identifier \in u
        THEN [value |-> None, identifier |-> id, used |-> u]
        ELSE [value |-> Some(packet_identifier), identifier |-> packet_identifier,
              used |-> u \cup {packet_identifier}]

(* release that clears the whole bitmap *)
release_clears_all(u, id) == {}

(* release that clears no bit *)
release_clears_nothing(u, id) == u

(* identifier.rs: PacketIdentifier::release *)
release(u, id) == u \ {id}

(* the values a call returns *)
Ok(v) == [kind |-> "Ok", value |-> v]
Err(e) == [kind |-> "Err", error |-> e]
Panicked == [kind |-> "panic"]

(* the entries of the log *)
Sent(packet) == [dir |-> "sent", packet |-> packet]
Recv(packet) == [dir |-> "recv", packet |-> packet]
Elapsed == [dir |-> "timeout", packet |-> NoPacket]

(* Client::send: the error of stream.send(msg), "" if it succeeded *)
send(msg, io_ok) == IF ~io_ok THEN "io" ELSE MqttCodec_encode(msg).err

(* the locals of a Publisher call *)
PublishOp(qos, packet_identifier, retries, dup) ==
    [kind |-> "publish", qos |-> qos, packet_identifier |-> packet_identifier,
     retries |-> retries, dup |-> dup]

(* the Publish that at_least_once_publish / exactly_once_publish build *)
PublishMsg(o) ==
    MkPublish(o.dup, o.qos, FALSE, TopicA, o.packet_identifier, NoPublishProperties,
              PayloadHi)

(* send_rel answering with a PubRec instead of a PubRel *)
PubRelMsg_as_pubrec(packet_identifier) ==
    MkResponse("PubRec", packet_identifier, Success, NoProperties)

(* the PubRel that send_rel builds *)
PubRelMsg(packet_identifier) ==
    MkResponse("PubRel", packet_identifier, Success, NoProperties)

(* the reason code of a PubRec is ignored *)
Rejected_never(packet) == FALSE

(* exactly_once_publish: `if res.reason_code != ReasonCode::Success` *)
Rejected(packet) == packet.reason_code # Success

(* the packets the peer may deliver while identifier id is awaited *)
Inbound(id) ==
    { MkResponse(type, i, rc, NoProperties) :
          type \in {"PubAck", "PubRec", "PubRel", "PubComp"},
          i \in {id, (id + 1) % U16Modulus}, rc \in {Success, UnspecifiedError} }
    \cup { [type |-> "SubAck", packet_identifier |-> i, properties |-> NoProperties,
            reason_codes |-> <<rc>>] :
          i \in {id, (id + 1) % U16Modulus}, rc \in {Success, UnspecifiedError} }
    \cup { [type |-> "PingResp"],
           MkPublish(FALSE, 0, FALSE, TopicA, None, NoPublishProperties, PayloadHi) }

(* the 3-second window of the publish calls ends before Client.timeout does *)
WindowElapsesFirst == IF timeout = None THEN TRUE ELSE Unwrap(timeout) > AckWindow

(* the call in progress returns r; its handshake is no longer awaited *)
Return(r) ==
    /\ pc' = "idle"
    /\ result' = r
    /\ awaiting' = IF op.kind \in {"publish", "subscribe"} /\ IsSome(op.packet_identifier)
                   THEN awaiting \ {Unwrap(op.packet_identifier)} ELSE awaiting

(* at_most_once_publish taking a packet identifier from the allocator *)
at_most_once_publish_allocates(io_ok) ==
    /\ pc = "idle"
    /\ calls < MaxCalls
    /\ LET n == next(identifier, used)
           o == PublishOp(0, None, 0, FALSE)
           e == send(PublishMsg(o), io_ok)
       IN  /\ identifier' = n.identifier
           /\ used' = n.used
           /\ op' = o
           /\ log' = IF e = "" THEN <<Sent(PublishMsg(o))>> ELSE << >>
           /\ result' = IF e = "" THEN Ok(Success) ELSE Err(e)
    /\ calls' = calls + 1
    /\ UNCHANGED <<timeout, pc, awaiting, leaked>>
    /\ UNCHANGED codecVars

(* Publisher::at_most_once_publish *)
at_most_once_publish(io_ok) ==
    /\ pc = "idle"
    /\ calls < MaxCalls
    /\ LET o == PublishOp(0, None, 0, FALSE)
           e == send(PublishMsg(o), io_ok)
       IN  /\ op' = o
           /\ log' = IF e = "" THEN <<Sent(PublishMsg(o))>> ELSE << >>
           /\ result' = IF e = "" THEN Ok(Success) ELSE Err(e)
    /\ calls' = calls + 1
    /\ UNCHANGED <<identifier, used, timeout, pc, awaiting, leaked>>
    /\ UNCHANGED codecVars

(* Publisher::at_least_once_publish and exactly_once_publish up to their
   first await of the acknowledgement *)
Publisher_publish(qos, io_ok) ==
    /\ pc = "idle"
    /\ calls < MaxCalls
    /\ LET n == next(identifier, used)
           o == PublishOp(qos, n.value, InitialRetries, FALSE)
           e == send(PublishMsg(o), io_ok)
       IN  /\ identifier' = n.identifier
           /\ used' = n.used
           /\ op' = o
           /\ IF e = ""
              THEN /\ log' = <<Sent(PublishMsg(o))>>
                   /\ pc' = IF qos = 1 THEN "wait_ack" ELSE "wait_rec"
                   /\ result' = NoResult
                   /\ awaiting' = awaiting \cup {Unwrap(n.value)}
              ELSE /\ log' = << >>
                   /\ pc' = "idle"
                   /\ result' = Err(e)
                   /\ awaiting' = awaiting
    /\ calls' = calls + 1
    /\ UNCHANGED <<timeout, leaked>>

(* the same with a peer that may deliver any packet of Inbound; the codec is
   not looked at *)
StartPublish(qos, io_ok) ==
    /\ Publisher_publish(qos, io_ok)
    /\ UNCHANGED codecVars

at_least_once_publish(io_ok) == StartPublish(1, io_ok)
exactly_once_publish(io_ok) == StartPublish(2, io_ok)

(* `if retries > 0` off by one: a retry is allowed once more *)
MayRetry_once_more(o) == o.retries >= 0

(* `if retries > 0` of the Err(elapsed) arms *)
MayRetry(o) == o.retries > 0

(* the retry without `dup = true` *)
NextAttempt_keeps_dup(o) == [o EXCEPT !.retries = @ - 1]

(* `retries = retries - 1; dup = true; continue` *)
NextAttempt(o) == [o EXCEPT !.retries = @ - 1, !.dup = TRUE]

(* the Err(elapsed) arm of at_least_once_publish / exactly_once_publish: the
   3-second window ended with no packet received *)
Publisher_elapsed(io_ok) ==
    /\ pc \in {"wait_ack", "wait_rec"}
    /\ WindowElapsesFirst
    /\ IF MayRetry(op)
       THEN LET o == NextAttempt(op)
                e == send(PublishMsg(o), io_ok)
            IN  /\ op' = o
                /\ leaked' = leaked
                /\ IF e = ""
                   THEN /\ log' = log \o <<Elapsed, Sent(PublishMsg(o))>>
                        /\ UNCHANGED <<pc, result, awaiting>>
                   ELSE /\ log' = Append(log, Elapsed)
                        /\ Return(Err(e))
       ELSE /\ log' = Append(log, Elapsed)
            /\ Return(Err(IF pc = "wait_ack" THEN "PUBACK error" ELSE "PUBREC error"))
            /\ leaked' = leaked \cup {Unwrap(op.packet_identifier)}
            /\ op' = op
    /\ UNCHANGED <<identifier, used, timeout, calls>>

(* the same with a peer that may deliver any packet of Inbound; the codec is
   not looked at *)
AckTimeout(io_ok) ==
    /\ Publisher_elapsed(io_ok)
    /\ UNCHANGED codecVars

(* send_rel releasing the identifier when it gives up *)
CompTimeout_releases(io_ok) ==
    /\ pc = "wait_comp"
    /\ WindowElapsesFirst
    /\ IF MayRetry(op)
       THEN LET o == [op EXCEPT !.retries = @ - 1]
                msg == PubRelMsg(Unwrap(op.packet_identifier))
                e == send(msg, io_ok)
            IN  /\ op' = o
                /\ leaked' = leaked
                /\ IF e = ""
                   THEN /\ log' = log \o <<Elapsed, Sent(msg)>>
                        /\ UNCHANGED <<pc, result, awaiting>>
                   ELSE /\ log' = Append(log, Elapsed)
                        /\ Return(Err(e))
       ELSE /\ log' = Append(log, Elapsed)
            /\ Return(Err("PUBCOMP error"))
            /\ leaked' = leaked \cup {Unwrap(op.packet_identifier)}
            /\ op' = op
    /\ used' = IF MayRetry(op) THEN used
               ELSE release(used, Unwrap(op.packet_identifier))
    /\ UNCHANGED <<identifier, timeout, calls>>
    /\ UNCHANGED codecVars

(* the Err(elapsed) arm of send_rel *)
send_rel_elapsed(io_ok) ==
    /\ pc = "wait_comp"
    /\ WindowElapsesFirst
    /\ IF MayRetry(op)
       THEN LET o == [op EXCEPT !.retries = @ - 1]
                msg == PubRelMsg(Unwrap(op.packet_identifier))
                e == send(msg, io_ok)
            IN  /\ op' = o
                /\ leaked' = leaked
                /\ IF e = ""
                   THEN /\ log' = log \o <<Elapsed, Sent(msg)>>
                        /\ UNCHANGED <<pc, result, awaiting>>
                   ELSE /\ log' = Append(log, Elapsed)
                        /\ Return(Err(e))
       ELSE /\ log' = Append(log, Elapsed)
            /\ Return(Err("PUBCOMP error"))
            /\ leaked' = leaked \cup {Unwrap(op.packet_identifier)}
            /\ op' = op
    /\ UNCHANGED <<identifier, used, timeout, calls>>

(* the same with a peer that may deliver any packet of Inbound; the codec is
   not looked at *)
CompTimeout(io_ok) ==
    /\ send_rel_elapsed(io_ok)
    /\ UNCHANGED codecVars

(* Client::recv with Client.timeout set: the receive itself times out; the
   error goes through the Ok(res) arm and ends the call *)
Client_recv_elapsed ==
    /\ pc \in {"wait_ack", "wait_rec", "wait_comp", "wait_suback"}
    /\ IsSome(timeout)
    /\ IF pc = "wait_suback" THEN TRUE ELSE Unwrap(timeout) < AckWindow
    /\ log' = Append(log, [dir |-> "recv_timeout", packet |-> NoPacket])
    /\ Return(Err("deadline has elapsed"))
    /\ UNCHANGED <<identifier, used, timeout, op, calls, leaked>>

(* the same, the codec not looked at *)
RecvTimeout ==
    /\ Client_recv_elapsed
    /\ UNCHANGED codecVars

(* Client::recv: the stream ended or the decoder failed *)
RecvError ==
    /\ pc \in {"wait_ack", "wait_rec", "wait_comp", "wait_suback"}
    /\ log' = Append(log, [dir |-> "recv_error", packet |-> NoPacket])
    /\ Return(Err("disconnected"))
    /\ UNCHANGED <<identifier, used, timeout, op, calls, leaked>>
    /\ UNCHANGED codecVars

(* recv_ack skipping a packet it does not await and receiving again *)
recv_ack_skips_unexpected(packet) ==
    /\ pc = "wait_ack"
    /\ packet \in Inbound(Unwrap(op.packet_identifier))
    /\ log' = Append(log, Recv(packet))
    /\ IF packet.type = "PubAck" /\ packet.packet_identifier = Unwrap(op.packet_identifier)
       THEN /\ used' = release(used, packet.packet_identifier)
            /\ Return(Ok(packet.reason_code))
       ELSE /\ used' = used
            /\ UNCHANGED <<pc, result, awaiting>>
    /\ UNCHANGED <<identifier, timeout, op, calls, leaked>>
    /\ UNCHANGED codecVars

(* Publisher::recv_ack and the Ok(res) arm of at_least_once_publish *)
Publisher_recv_ack(packet) ==
    /\ pc = "wait_ack"
    /\ log' = Append(log, Recv(packet))
    /\ IF packet.type = "PubAck" /\ packet.packet_identifier = Unwrap(op.packet_identifier)
       THEN /\ used' = release(used, packet.packet_identifier)
            /\ Return(Ok(packet.reason_code))
       ELSE /\ used' = used
            /\ Return(Err("unexpected"))
    /\ UNCHANGED <<identifier, timeout, op, calls, leaked>>

(* the same with a peer that may deliver any packet of Inbound; the codec is
   not looked at *)
recv_ack(packet) ==
    /\ pc = "wait_ack"
    /\ packet \in Inbound(Unwrap(op.packet_identifier))
    /\ Publisher_recv_ack(packet)
    /\ UNCHANGED codecVars

(* Publisher::recv_rec and the Ok(res) arm of exactly_once_publish, up to
   the first await of send_rel *)
Publisher_recv_rec(packet, io_ok) ==
    /\ pc = "wait_rec"
    /\ IF packet.type = "PubRec" /\ packet.packet_identifier = Unwrap(op.packet_identifier)
       THEN IF Rejected(packet)
            THEN /\ used' = release(used, packet.packet_identifier)
                 /\ log' = Append(log, Recv(packet))
                 /\ Return(Ok(packet.reason_code))
                 /\ op' = op
            ELSE LET msg == PubRelMsg(Unwrap(op.packet_identifier))
                     e == send(msg, io_ok)
                 IN  /\ used' = used
                     /\ op' = [op EXCEPT !.retries = InitialRetries]
                     /\ IF e = ""
                        THEN /\ log' = log \o <<Recv(packet), Sent(msg)>>
                             /\ pc' = "wait_comp"
                             /\ UNCHANGED <<result, awaiting>>
                        ELSE /\ log' = Append(log, Recv(packet))
                             /\ Return(Err(e))
       ELSE /\ used' = used
            /\ log' = Append(log, Recv(packet))
            /\ Return(Err("unexpected"))
            /\ op' = op
    /\ UNCHANGED <<identifier, timeout, calls, leaked>>

(* the same with a peer that may deliver any packet of Inbound; the codec is
   not looked at *)
recv_rec(packet, io_ok) ==
    /\ pc = "wait_rec"
    /\ packet \in Inbound(Unwrap(op.packet_identifier))
    /\ Publisher_recv_rec(packet, io_ok)
    /\ UNCHANGED codecVars

(* res_comp leaving the identifier marked used *)
res_comp_keeps_identifier(packet) ==
    /\ pc = "wait_comp"
    /\ packet \in Inbound(Unwrap(op.packet_identifier))
    /\ log' = Append(log, Recv(packet))
    /\ IF packet.type = "PubComp" /\ packet.packet_identifier = Unwrap(op.packet_identifier)
       THEN /\ used' = used
            /\ Return(Ok(packet.reason_code))
       ELSE /\ used' = used
            /\ Return(Err("unexpected"))
    /\ UNCHANGED <<identifier, timeout, op, calls, leaked>>
    /\ UNCHANGED codecVars

(* Publisher::res_comp and the Ok(res) arm of send_rel *)
Publisher_res_comp(packet) ==
    /\ pc = "wait_comp"
    /\ log' = Append(log, Recv(packet))
    /\ IF packet.type = "PubComp" /\ packet.packet_identifier = Unwrap(op.packet_identifier)
       THEN /\ used' = release(used, packet.packet_identifier)
            /\ Return(Ok(packet.reason_code))
       ELSE /\ used' = used
            /\ Return(Err("unexpected"))
    /\ UNCHANGED <<identifier, timeout, op, calls, leaked>>

(* the same with a peer that may deliver any packet of Inbound; the codec is
   not looked at *)
res_comp(packet) ==
    /\ pc = "wait_comp"
    /\ packet \in Inbound(Unwrap(op.packet_identifier))
    /\ Publisher_res_comp(packet)
    /\ UNCHANGED codecVars

(* the Subscribe that Subscriber::subscribe builds *)
SubscribeMsg(packet_identifier, qos) ==
    [type |-> "Subscribe", packet_identifier |-> packet_identifier,
     properties |-> subscribe(PropertiesBuilder_default),
     topic_filters |-> << <<TopicA, [qos |-> qos, nl |-> FALSE, rap |-> FALSE,
                                    retain |-> 0]>> >>]

(* Subscriber::subscribe (and Client::subscribe) up to the await of recv;
   packet_identifier.unwrap() panics when the allocator gave None *)
Subscribe(qos, io_ok) ==
    /\ pc = "idle"
    /\ calls < MaxCalls
    /\ LET n == next(identifier, used)
       IN  /\ identifier' = n.identifier
           /\ used' = n.used
           /\ op' = [kind |-> "subscribe", qos |-> qos, packet_identifier |-> n.value]
           /\ IF n.value = None
              THEN /\ pc' = "panicked"
                   /\ result' = Panicked
                   /\ log' = << >>
                   /\ awaiting' = awaiting
              ELSE LET msg == SubscribeMsg(Unwrap(n.value), qos)
                       e == send(msg, io_ok)
                   IN  IF e = ""
                       THEN /\ log' = <<Sent(msg)>>
                            /\ pc' = "wait_suback"
                            /\ result' = NoResult
                            /\ awaiting' = awaiting \cup {Unwrap(n.value)}
                       ELSE /\ log' = << >>
                            /\ pc' = "idle"
                            /\ result' = Err(e)
                            /\ awaiting' = awaiting
    /\ calls' = calls + 1
    /\ UNCHANGED <<timeout, leaked>>
    /\ UNCHANGED codecVars

(* the and_then of Subscriber::subscribe: any SubAck is accepted *)
SubscribeRecv(packet) ==
    /\ pc = "wait_suback"
    /\ packet \in Inbound(Unwrap(op.packet_identifier))
    /\ log' = Append(log, Recv(packet))
    /\ IF packet.type = "SubAck" THEN Return(Ok(packet)) ELSE Return(Err("unexpected"))
    /\ UNCHANGED <<identifier, used, timeout, op, calls, leaked>>
    /\ UNCHANGED codecVars

(* Client::publish: sends one Publish and returns its identifier; the
   caller receives the acknowledgement with Client::recv *)
ClientPublish(qos, io_ok) ==
    /\ pc = "idle"
    /\ calls < MaxCalls
    /\ LET n == IF qos # 0 THEN next(identifier, used)
                ELSE [value |-> None, identifier |-> identifier, used |-> used]
           msg == MkPublish(FALSE, qos, FALSE, TopicA, n.value, NoPublishProperties,
                            PayloadHi)
           e == send(msg, io_ok)
       IN  /\ identifier' = n.identifier
           /\ used' = n.used
           /\ op' = [kind |-> "client_publish", qos |-> qos, packet_identifier |-> n.value]
           /\ log' = IF e = "" THEN <<Sent(msg)>> ELSE << >>
           /\ result' = IF e = "" THEN Ok(n.value) ELSE Err(e)
           /\ awaiting' = IF e = "" /\ IsSome(n.value)
                          THEN awaiting \cup {Unwrap(n.value)} ELSE awaiting
    /\ calls' = calls + 1
    /\ UNCHANGED <<timeout, pc, leaked>>
    /\ UNCHANGED codecVars

(* what Client::recv may return to a caller that is in no handshake *)
RecvOutcomes ==
    {Ok(packet) : packet \in {MkResponse("PubAck", identifier, Success, NoProperties),
                              MkResponse("PubComp", identifier, Success, NoProperties),
                              [type |-> "PingResp"]}}
    \cup {Err("disconnected")}
    \cup (IF IsSome(timeout) THEN {Err("deadline has elapsed")} ELSE {})

(* Client::recv called by the application; an acknowledgement it returns
   ends the handshake of a Client::publish *)
ClientRecv(r) ==
    /\ pc = "idle"
    /\ calls < MaxCalls
    /\ r \in RecvOutcomes
    /\ op' = [kind |-> "recv"]
    /\ log' = IF r.kind = "Ok" THEN <<Recv(r.value)>> ELSE << >>
    /\ result' = r
    /\ awaiting' =
          IF r.kind = "Ok"
             /\ \/ r.value.type \in {"PubAck", "PubComp"}
                \/ r.value.type = "PubRec" /\ r.value.reason_code # Success
          THEN awaiting \ {r.value.packet_identifier} ELSE awaiting
    /\ calls' = calls + 1
    /\ UNCHANGED <<identifier, used, timeout, pc, leaked>>
    /\ UNCHANGED codecVars

(* the client after connect, with the allocator fresh or about to wrap *)
ClientInit ==
    /\ identifier \in {0, 65534}
    /\ used = {}
    /\ timeout \in {None, Some(1), Some(5)}
    /\ pc = "idle"
    /\ op = NoOp
    /\ log = << >>
    /\ result = NoResult
    /\ calls = 0
    /\ awaiting = {}
    /\ leaked = {}

ClientNext ==
    \/ \E io_ok \in BOOLEAN : at_most_once_publish(io_ok)
    \/ \E io_ok \in BOOLEAN : at_least_once_publish(io_ok)
    \/ \E io_ok \in BOOLEAN : exactly_once_publish(io_ok)
    \/ \E io_ok \in BOOLEAN : AckTimeout(io_ok)
    \/ \E io_ok \in BOOLEAN : CompTimeout(io_ok)
    \/ RecvTimeout
    \/ RecvError
    \/ \E packet \in Inbound(identifier) : recv_ack(packet)
    \/ \E packet \in Inbound(identifier), io_ok \in BOOLEAN : recv_rec(packet, io_ok)
    \/ \E packet \in Inbound(identifier) : res_comp(packet)
    \/ \E qos \in {0, 2}, io_ok \in BOOLEAN : Subscribe(qos, io_ok)
    \/ \E packet \in Inbound(identifier) : SubscribeRecv(packet)
    \/ \E qos \in 0 .. 2, io_ok \in BOOLEAN : ClientPublish(qos, io_ok)
    \/ \E r \in RecvOutcomes : ClientRecv(r)

SpecClientInit ==
    /\ CodecInit
    /\ maximum_packet_size = None
    /\ ClientInit

SpecClient == SpecClientInit /\ [][ClientNext]_vars

(***************************************************************************)
(* Publish handshake claims                                                *)
(***************************************************************************)

(* the Publish and PubRel packets the call in progress, or the last call,
   sent *)
SentPublishes == SelectSeq(log, LAMBDA e : e.dir = "sent" /\ e.packet.type = "Publish")
SentPubRels == SelectSeq(log, LAMBDA e : e.dir = "sent" /\ e.packet.type = "PubRel")

(* log entry e is the receipt of a packet of this type carrying the
   identifier the call allocated *)
Matching(e, type) ==
    /\ e.dir = "recv"
    /\ e.packet.type = type
    /\ e.packet.packet_identifier = Unwrap(op.packet_identifier)

(* a Publisher call of this QoS has returned *)
Returned(qos) == pc = "idle" /\ op.kind = "publish" /\ op.qos = qos

(* the Publish of the call, as first sent *)
FirstPublish ==
    Sent(MkPublish(FALSE, op.qos, FALSE, TopicA, op.packet_identifier,
                   NoPublishProperties, PayloadHi))

(* C2: QoS1, the matching PubAck arrives in the first 3-second window:
   exactly one Publish, dup=false, was sent, the call returns that PubAck's
   reason code, and the identifier is free when it returns. *)
C2_Qos1AckInTime ==
    (Returned(1) /\ Len(log) >= 2 /\ Matching(log[2], "PubAck")) =>
        /\ Len(log) = 2
        /\ SentPublishes = <<FirstPublish>>
        /\ result = Ok(log[2].packet.reason_code)
        /\ Unwrap(op.packet_identifier) \notin used

(* a QoS1 publish was acknowledged at once with a failure reason code *)
C2_Witness ==
    /\ Returned(1)
    /\ Len(log) = 2
    /\ Matching(log[2], "PubAck")
    /\ log[2].packet.reason_code = UnspecifiedError
    /\ result = Ok(UnspecifiedError)

(* C3: QoS1, nothing arrives in the first window and the matching PubAck
   arrives in the second: exactly two Publish packets were sent, with the
   same identifier, topic and payload, the first dup=false, the second
   dup=true, and the call succeeds. *)
C3_Qos1OneLostAck ==
    (Returned(1) /\ Len(log) >= 4 /\ log[2] = Elapsed /\ Matching(log[4], "PubAck")) =>
        /\ Len(log) = 4
        /\ SentPublishes = <<log[1], log[3]>>
        /\ log[1] = FirstPublish
        /\ log[3] = Sent([FirstPublish.packet EXCEPT !.dup = TRUE])
        /\ result.kind = "Ok"

(* a QoS1 publish succeeded on its second transmission *)
C3_Witness ==
    /\ Returned(1)
    /\ Len(log) = 4
    /\ log[2] = Elapsed
    /\ Matching(log[4], "PubAck")
    /\ result = Ok(Success)

(* number of 3-second windows that ended before the call received anything *)
RECURSIVE PublishWaitsTimedOut(_)
PublishWaitsTimedOut(l) ==
    IF l = << >> \/ Head(l).dir \in {"recv", "recv_timeout", "recv_error"} THEN 0
    ELSE (IF Head(l) = Elapsed THEN 1 ELSE 0) + PublishWaitsTimedOut(Tail(l))

(* C4: a QoS1 or QoS2 publish call sends at most 4 Publish packets, all with
   the identifier it allocated, the first dup=false and every later one
   dup=true; when all four waits timed out the call has failed with PUBACK
   error / PUBREC error and sent nothing after the fourth timeout. *)
C4_RetransmissionBound ==
    (op.kind = "publish" /\ op.qos \in {1, 2}) =>
        /\ Len(SentPublishes) <= InitialRetries + 1
        /\ \A i \in 1 .. Len(SentPublishes) :
              /\ SentPublishes[i].packet.packet_identifier = op.packet_identifier
              /\ SentPublishes[i].packet.dup = (i > 1)
        /\ PublishWaitsTimedOut(log) = InitialRetries + 1 =>
              /\ pc = "idle"
              /\ result = Err(IF op.qos = 1 THEN "PUBACK error" ELSE "PUBREC error")
              /\ log[Len(log)] = Elapsed
              /\ Len(SentPublishes) = InitialRetries + 1

(* a QoS2 publish failed after its fourth window *)
C4_Witness ==
    /\ Returned(2)
    /\ PublishWaitsTimedOut(log) = InitialRetries + 1
    /\ Len(SentPublishes) = InitialRetries + 1
    /\ result = Err("PUBREC error")

(* C5: QoS2, the peer answers Publish with a matching PubRec(Success) and
   PubRel with a matching PubComp: the packets exchanged are exactly Publish
   (sent), PubRec (received), PubRel (sent), PubComp (received), the call
   returns PubComp's reason code and the identifier is free afterwards. *)
C5_Qos2Success ==
    (/\ Returned(2)
     /\ Len(log) >= 4
     /\ Matching(log[2], "PubRec") /\ log[2].packet.reason_code = Success
     /\ Matching(log[4], "PubComp")) =>
        /\ Len(log) = 4
        /\ log[1] = FirstPublish
        /\ log[3] = Sent(MkResponse("PubRel", Unwrap(op.packet_identifier), Success,
                                    NoProperties))
        /\ result = Ok(log[4].packet.reason_code)
        /\ Unwrap(op.packet_identifier) \notin used

(* a QoS2 publish went through both phases without a retransmission *)
C5_Witness ==
    /\ Returned(2)
    /\ Len(log) = 4
    /\ Matching(log[2], "PubRec") /\ log[2].packet.reason_code = Success
    /\ Matching(log[4], "PubComp")
    /\ result = Ok(log[4].packet.reason_code)

(* C6: QoS2, the matching PubRec that answers the Publish (the first packet
   the call receives) carries a reason code other than Success:
   the call returns Ok with exactly that code, sends no PubRel, and the
   identifier is released when it returns. *)
C6_Qos2Rejection ==
    (op.kind = "publish" /\ op.qos = 2) =>
        \A i \in 1 .. Len(log) :
            (/\ Matching(log[i], "PubRec")
             /\ \A j \in 1 .. i - 1 : log[j].dir # "recv"
             /\ log[i].packet.reason_code # Success) =>
                /\ pc = "idle"
                /\ i = Len(log)
                /\ result = Ok(log[i].packet.reason_code)
                /\ SentPubRels = << >>
                /\ Unwrap(op.packet_identifier) \notin used

(* a QoS2 publish was rejected by the PubRec that answered a retransmission *)
C6_Witness ==
    /\ Returned(2)
    /\ Len(log) = 4
    /\ log[2] = Elapsed
    /\ Matching(log[4], "PubRec")
    /\ log[4].packet.reason_code = UnspecifiedError
    /\ result = Ok(UnspecifiedError)

(* C7: in every state an identifier is marked used in the allocator if and
   only if a publish or subscribe handshake that allocated it is still
   awaiting its acknowledgement; after a publish or a subscribe returned
   successfully its identifier is free again. *)
C7_IdentifierLifetime ==
    /\ used = awaiting
    /\ (pc = "idle" /\ op.kind \in {"publish", "subscribe"} /\ result.kind = "Ok"
        /\ IsSome(op.packet_identifier)) => Unwrap(op.packet_identifier) \notin used

(* C8: an identifier whose publish failed with PUBACK, PUBREC or PUBCOMP
   error after the last allowed retransmission stays marked used after the
   call returned, whatever the client does later. *)
C8_TerminalTimeoutLeak == leaked \subseteq used

(* after a publish gave up, a later publish completed and the identifier of
   the first is still in use *)
C8_Witness ==
    /\ leaked # {}
    /\ Returned(1)
    /\ result = Ok(Success)
    /\ Unwrap(op.packet_identifier) \notin leaked
    /\ leaked \subseteq used

(***************************************************************************)
(* Framing claims                                                          *)
(***************************************************************************)

(* the bytes of the i-th frame written, and of all frames written *)
FrameBytes(i) == MqttCodec_encode(sent[i]).bytes
SentBytes == Flatten([i \in 1 .. Len(sent) |-> FrameBytes(i)])
FedBytes == Take(SentBytes, fed)

(* number of bytes of the first k frames *)
RECURSIVE FramesLen(_)
FramesLen(k) == IF k = 0 THEN 0 ELSE FramesLen(k - 1) + Len(FrameBytes(k))

(* the remaining length a frame of the i-th packet declares, from its size *)
FrameRemaining(i) ==
    CHOOSE r \in 0 .. Len(FrameBytes(i)) : 1 + size_usize(r) + r = Len(FrameBytes(i))

(* the packet type the fixed header of a packet carries *)
PacketTypeOf(packet) ==
    IF packet.type = "Publish"
    THEN [name |-> "Publish", dup |-> packet.dup, qos |-> packet.qos,
          retain |-> packet.retain]
    ELSE [name |-> packet.type]

(* number of bytes the decoder took out of its buffer so far *)
Consumed == fed - Len(reader)

(* C9: feeding the bytes of valid frames to the decoder in chunks of any
   sizes yields the packets, in order, that decoding the whole byte sequence
   yields, and no error that the whole sequence does not give; with no size
   limit there is no error at all. *)
C9_ChunkingIndependent ==
    (decode_err # "" \/ (wire = << >> /\ ~is_readable)) =>
        LET whole == decode_all(FixedHeader, FedBytes, maximum_packet_size, << >>)
        IN  /\ received = whole.packets
            /\ decode_err = whole.err
            /\ maximum_packet_size = None => decode_err = ""

(* what every state of the framing cycle satisfies *)
C10_State ==
    /\ reader = Drop(FedBytes, Consumed)
    /\ part.name = "VariableHeader" =>
          LET k == Len(received) + 1
          IN  /\ k <= Len(sent)
              /\ part.remaining = FrameRemaining(k)
              /\ part.packet_type = PacketTypeOf(sent[k])
              /\ Consumed = FramesLen(k - 1) + 1 + size_usize(part.remaining)
              /\ ~is_readable => Len(reader) < part.remaining
    /\ (part.name = "FixedHeader" /\ decode_err = "") =>
          Consumed = FramesLen(Len(received))

(* what every step of the framing cycle satisfies *)
C10_Step ==
    /\ (part.name = "FixedHeader" /\ part'.name = "VariableHeader") =>
          Consumed' = Consumed + 1 + size_usize(part'.remaining)
    /\ (part.name = "VariableHeader" /\ part'.name = "VariableHeader") =>
          /\ part' = part
          /\ received' = received
          /\ Consumed' = Consumed
    /\ Len(received') <= Len(received) + 1
    /\ received' # received =>
          /\ part' = FixedHeader
          /\ received' = Append(received, sent[Len(received) + 1])
          /\ Consumed' = FramesLen(Len(received) + 1)
          /\ reader' = Drop(FedBytes, FramesLen(Len(received) + 1))

(* C10: the codec starts in FixedHeader; it moves to VariableHeader only
   after consuming a complete fixed header, and stays there with the same
   remaining and packet_type, consuming nothing, until remaining bytes are
   buffered; a call that returns a packet has consumed exactly the frame,
   leaves the state FixedHeader and the following bytes untouched, and no
   call returns more than one packet. *)
C10_FramingCycle ==
    /\ part = FixedHeader
    /\ []C10_State
    /\ [][C10_Step]_vars

(* the decoder waits in VariableHeader for the body of a frame with a
   two-byte remaining length, after it returned an earlier packet *)
C10_Witness ==
    /\ part.name = "VariableHeader"
    /\ part.remaining > 127
    /\ Len(received) = 1
    /\ Len(reader) > 0
    /\ ~is_readable

(***************************************************************************)
(* Maximum packet size                                                     *)
(***************************************************************************)

(* C11: with maximum_packet_size = M configured, decode fails with
   PacketTooLarge exactly when remaining length + the size of the fixed
   header read (the type byte and the length bytes) is greater than M: a
   frame whose fixed header was accepted, or whose packet was returned, is
   at most M bytes long; and a rejection is of a frame longer than M, with
   nothing consumed after its fixed header. *)
C11_MaximumPacketSize ==
    IsSome(maximum_packet_size) =>
        LET M == Unwrap(maximum_packet_size)
            k == Len(received) + 1
        IN  /\ \A i \in 1 .. Len(received) : Len(FrameBytes(i)) <= M
            /\ part.name = "VariableHeader" =>
                  1 + size_usize(part.remaining) + part.remaining <= M
            /\ decode_err = "PacketTooLarge" =>
                  /\ k <= Len(sent)
                  /\ Len(FrameBytes(k)) > M
                  /\ Consumed = FramesLen(k - 1) + 1 + size_usize(FrameRemaining(k))

(***************************************************************************)
(* The packet identifier allocator on its own (identifier.rs), driven by a *)
(* caller that calls next() and release().  calls counts the next() calls  *)
(* made since PacketIdentifier::default(), result is what the last next()  *)
(* returned.                                                               *)
(***************************************************************************)

MaxAllocations == 65540

(* the identifiers the caller may keep across later allocations; every other
   identifier is released before the caller allocates again *)
HeldSample == {0, 1, 2, U16Modulus - 1}

(* identifier.rs: Default for PacketIdentifier *)
AllocatorFresh ==
    /\ identifier = 0
    /\ used = {}
    /\ calls = 0
    /\ result = NoResult

(* the allocator after U16Modulus - 1 calls of next() on a fresh allocator
   with no release in between: every identifier from 1 to 65535 is held *)
AllocatorExhausted ==
    /\ identifier = U16Modulus - 1
    /\ used = 1 .. (U16Modulus - 1)
    /\ calls = U16Modulus - 1
    /\ result = Ok(Some(U16Modulus - 1))

AllocatorInit ==
    /\ CodecInit
    /\ maximum_packet_size = None
    /\ timeout = None
    /\ pc = "idle"
    /\ op = NoOp
    /\ log = << >>
    /\ awaiting = {}
    /\ leaked = {}
    /\ (AllocatorFresh \/ AllocatorExhausted)

(* one call of PacketIdentifier::next *)
AllocatorNext ==
    /\ calls < MaxAllocations
    /\ identifier \in HeldSample \/ identifier \notin used
    /\ LET r == next(identifier, used)
       IN  /\ identifier' = r.identifier
           /\ used' = r.used
           /\ result' = Ok(r.value)
    /\ calls' = calls + 1
    /\ UNCHANGED <<timeout, pc, op, log, awaiting, leaked>>
    /\ UNCHANGED codecVars

(* one call of PacketIdentifier::release *)
AllocatorRelease(id) ==
    /\ used' = release(used, id)
    /\ UNCHANGED <<identifier, timeout, pc, op, log, result, calls, awaiting, leaked>>
    /\ UNCHANGED codecVars

(* the identifiers the caller releases: the one it got last and the ones it
   may have kept *)
ReleaseIds == HeldSample \cup {identifier}

AllocatorStep ==
    \/ AllocatorNext
    \/ \E id \in ReleaseIds : AllocatorRelease(id)

SpecAllocator == AllocatorInit /\ [][AllocatorStep]_vars

(***************************************************************************)
(* Allocator claims                                                        *)
(***************************************************************************)

(* the identifier after id in the 16-bit rolling order *)
Successor(id) == IF id = U16Modulus - 1 THEN 0 ELSE id + 1

(* C12: starting from a fresh allocator, the k-th call of next() returns
   Some(k) for every k from 1 to 65534, whether or not earlier identifiers
   were released in between. *)
C12_FreshAllocationOrder ==
    calls \in 1 .. (U16Modulus - 2) => result = Ok(Some(calls))

(* the 65534th call returned 65534 while identifiers 1 and 2 were still held *)
C12_Witness ==
    /\ calls = U16Modulus - 2
    /\ result = Ok(Some(U16Modulus - 2))
    /\ {1, 2} \subseteq used

(* C13: when all identifiers 1..65535 are held, next() returns None and does
   not hand out 0. *)
C13_Exhaustion ==
    [][(AllocatorNext /\ (1 .. (U16Modulus - 1)) \subseteq used)
          => result' = Ok(None)]_vars

(* C14: every value next() returns is in 1..65535; 0 is never returned. *)
C14_ValidRange ==
    (result.kind = "Ok" /\ IsSome(result.value)) =>
        Unwrap(result.value) \in 1 .. (U16Modulus - 1)

(* what every call of next() does: it tests the successor of the identifier
   returned last, returns it and marks it when it is free, and fails, changing
   nothing, when it is held *)
C15_Step ==
    /\ AllocatorNext =>
          IF Successor(identifier) \in used
          THEN /\ result' = Ok(None)
               /\ identifier' = identifier
               /\ used' = used
          ELSE /\ result' = Ok(Some(Successor(identifier)))
               /\ identifier' = Successor(identifier)
               /\ used' = used \cup {Successor(identifier)}
    /\ identifier' # identifier => (AllocatorNext /\ result' = Ok(Some(identifier')))

(* C15: next() always tests exactly (last returned identifier + 1) mod 65536
   and returns it when it is free; the call after the one that returned
   65535 returns 0, and the following ones 1 and 2 when those are free. *)
C15_RollingCounter ==
    /\ [][C15_Step]_vars
    /\ [](calls = U16Modulus => result = Ok(Some(0)))

(* the counter wrapped: 65535, 0, 1 and now 2 were returned in a row *)
C15_Witness ==
    /\ calls = U16Modulus + 2
    /\ result = Ok(Some(2))
    /\ identifier = 2
    /\ {0, 1} \subseteq used
    /\ used \subseteq HeldSample

(* C16: release(i) clears i and nothing else (a no-op on a free identifier)
   and leaves the rolling counter alone; an identifier that is free stays
   free until a next() call whose candidate it is returns it, and such a call
   does return it. *)
C16_ReleaseReusable ==
    [][/\ \A i \in ReleaseIds :
              AllocatorRelease(i) => (identifier' = identifier /\ used' = used \ {i})
       /\ \A j \in used' \ used :
              AllocatorNext /\ j = Successor(identifier) /\ result' = Ok(Some(j))
       /\ (AllocatorNext /\ Successor(identifier) \notin used) =>
              result' = Ok(Some(Successor(identifier)))]_vars

(* identifier 1, allocated by the first call and released since, was
   returned again after the counter wrapped *)
C16_Witness ==
    /\ calls = U16Modulus + 1
    /\ result = Ok(Some(1))
    /\ used = {1}

(***************************************************************************)
(* Variable byte integers on their own: a value is encoded and the bytes,  *)
(* followed by the rest of a buffer, are decoded; or a byte sequence is    *)
(* decoded.  op is the input, wire the bytes encode_variable_integer wrote, *)
(* reader the buffer after decode_variable_integer, result its outcome.    *)
(***************************************************************************)

MaxVarintSample == 40

(* the largest value of a variable byte integer, and the values at which
   its size changes *)
VarintMax == 128 * 128 * 128 * 128 - 1
VarintBoundaries == {0, 127, 128, 16383, 16384, 2097151, 2097152, VarintMax}

VarintSample ==
    (0 .. MaxVarintSample)
        \cup { b + d : b \in VarintBoundaries, d \in {-1, 0, 1} }
        \cup { 128 * 128 * 128 * k + j : k \in {1, 15, 16, 127}, j \in {0, 5} }

(* byte sequences of five bytes and more whose first four bytes have the
   continuation bit set *)
OverlongSample ==
    { <<a, b, 128, 255>> \o <<e>> \o t :
        a \in {128, 255}, b \in {128, 129}, e \in {0, 1, 15, 16, 127, 128, 143, 144, 255},
        t \in {<< >>, <<0>>} }

VarintInit ==
    /\ CodecInit
    /\ maximum_packet_size = None
    /\ identifier = 0
    /\ used = {}
    /\ timeout = None
    /\ pc = "idle"
    /\ log = << >>
    /\ result = NoResult
    /\ calls = 0
    /\ awaiting = {}
    /\ leaked = {}
    /\ \/ \E v \in VarintSample \cap (0 .. VarintMax), t \in {<< >>, <<255>>, <<1, 2>>} :
             op = [kind |-> "varint", v |-> v, trailing |-> t]
       \/ \E b \in OverlongSample : op = [kind |-> "bytes", bytes |-> b]

(* encoder.rs: encode_variable_integer(writer, v) on an empty writer *)
VarintEncode ==
    /\ pc = "idle"
    /\ op.kind = "varint"
    /\ wire' = encode_variable_integer(op.v)
    /\ pc' = "encoded"
    /\ UNCHANGED <<sent, encode_err, fed, reader, part, maximum_packet_size, is_readable,
                   received, decode_err>>
    /\ UNCHANGED <<identifier, used, timeout, op, log, result, calls, awaiting, leaked>>

(* what a call of decode_variable_integer returns.  The accumulator is a u32:
   where the product overflows, a build with overflow checks aborts and a
   build without them wraps and goes on to the ensure! *)
VarintOutcome(r, overflow_checks) ==
    IF r.overflow /\ overflow_checks THEN Panicked
    ELSE IF r.err = "" THEN Ok(r.value)
    ELSE Err(r.err)

(* decoder.rs: decode_variable_integer on the bytes written, followed by the
   rest of the buffer *)
VarintDecode(overflow_checks) ==
    /\ pc = "encoded"
    /\ LET decoded(r) ==
               /\ result' = VarintOutcome(r, overflow_checks)
               /\ reader' = r.rest
       IN  decoded(decode_variable_integer(wire \o op.trailing))
    /\ pc' = "decoded"
    /\ UNCHANGED <<sent, encode_err, wire, fed, part, maximum_packet_size, is_readable,
                   received, decode_err>>
    /\ UNCHANGED <<identifier, used, timeout, op, log, calls, awaiting, leaked>>

(* decoder.rs: decode_variable_integer on a given byte sequence *)
VarintDecodeBytes(overflow_checks) ==
    /\ pc = "idle"
    /\ op.kind = "bytes"
    /\ LET decoded(r) ==
               /\ result' = VarintOutcome(r, overflow_checks)
               /\ reader' = r.rest
       IN  decoded(decode_variable_integer(op.bytes))
    /\ pc' = "decoded"
    /\ UNCHANGED <<sent, encode_err, wire, fed, part, maximum_packet_size, is_readable,
                   received, decode_err>>
    /\ UNCHANGED <<identifier, used, timeout, op, log, calls, awaiting, leaked>>

VarintNext ==
    \/ VarintEncode
    \/ \E overflow_checks \in BOOLEAN : VarintDecode(overflow_checks)
    \/ \E overflow_checks \in BOOLEAN : VarintDecodeBytes(overflow_checks)

SpecVarint == VarintInit /\ [][VarintNext]_vars

(***************************************************************************)
(* Variable byte integer claims                                            *)
(***************************************************************************)

(* C17: for every n in 0..268,435,455, encode_variable_integer(n) writes
   exactly size(n) bytes (1 to 4), the continuation bit is set on all bytes
   but the last, and decode_variable_integer of those bytes returns n and
   consumes exactly those bytes. *)
C17_VarintRoundTrip ==
    (op.kind = "varint" /\ pc # "idle") =>
        /\ Len(wire) = size_usize(op.v)
        /\ Len(wire) \in 1 .. 4
        /\ \A i \in 1 .. Len(wire) : (wire[i] >= 128) <=> (i < Len(wire))
        /\ pc = "decoded" => (result = Ok(op.v) /\ reader = op.trailing)

(* the largest value went through four bytes and back, the bytes after it
   left in the buffer *)
C17_Witness ==
    /\ pc = "decoded"
    /\ op.kind = "varint"
    /\ op.v = VarintMax
    /\ wire = <<255, 255, 255, 127>>
    /\ result = Ok(VarintMax)
    /\ reader = <<1, 2>>

(* C18: a byte sequence whose first four bytes all have the continuation bit
   set, and that has a fifth byte of any value, decodes to the error
   MalformedVariableInteger: no value is returned and the call does not
   abort. *)
C18_OverlongVarint ==
    (op.kind = "bytes" /\ pc = "decoded") => result = Err("MalformedVariableInteger")

(***************************************************************************)
(* The property builder and the property decoders on their own: one call   *)
(* of a packet's property decoder on a properties region, or a sequence of *)
(* setter calls on one builder.                                            *)
(***************************************************************************)

MaxUserProperties == 3

PropertyDecoders ==
    {"connect", "connack", "publish", "pubres", "subscribe", "unsubscribe",
     "disconnect", "will", "auth"}

(* the ids whose value is one byte, a two byte integer, a four byte integer,
   a UTF-8 string, binary data (MQTT 5, 2.2.2.2) *)
ByteIds == {PayloadFormatIndicator, RequestProblemInformation, RequestResponseInformation,
            MaximumQoS, RetainAvailable, WildcardSubscriptionAvailable,
            SubscriptionIdentifierAvailable, SharedSubscriptionAvailable}
U16Ids == {ServerKeepAlive, ReceiveMaximum, TopicAliasMaximum, TopicAlias}
U32Ids == {MessageExpireInterval, SessionExpireInterval, WillDelayInterval, MaximumPacketSize}
StringIds == {ContentType, ResponseTopic, AssignedClientIdentifier, AuthenticationMethod,
              ResponseInformation, ServerReference, ReasonString}
BinaryIds == {CorrelationData, AuthenticationData}

(* well-formed values of property id, as they stand on the wire after the id *)
PropertyValues(id) ==
    IF id \in ByteIds THEN {<<0>>, <<1>>}
    ELSE IF id \in U16Ids THEN {<<0, 10>>, <<1, 0>>}
    ELSE IF id \in U32Ids THEN {<<0, 0, 0, 5>>, <<0, 1, 0, 0>>}
    ELSE IF id \in StringIds THEN {<<0, 1, 65>>, <<0, 2, 66, 67>>, <<0, 0>>}
    ELSE IF id \in BinaryIds THEN {<<0, 1, 170>>, <<0, 0>>}
    ELSE IF id = SubscriptionIdentifier THEN {<<1>>, <<128, 1>>, <<255, 255, 255, 127>>}
    ELSE IF id = UserProperty THEN {<<0, 1, 107, 0, 1, 118>>, <<0, 1, 97, 0, 2, 98, 99>>}
    ELSE {<<0>>}

(* the properties region holding the given values of id, one after another *)
RECURSIVE Region(_, _)
Region(id, values) ==
    IF values = << >> THEN << >>
    ELSE <<id>> \o Head(values) \o Region(id, Tail(values))

(* the setters of PropertiesBuilder made with check_and_set! *)
PlainSetters == {"session_expire_interval", "receive_maximum", "maximum_packet_size",
               "topic_alias_maximum", "authentication_method", "will_delay_interval",
               "message_expire_interval", "server_keep_alive", "topic_alias",
               "subscription_identifier"}
BoolSetters == {"request_response_information", "request_problem_information",
              "payload_format_indicator", "retain_available",
              "wildcard_subscription_available", "subscription_identifier_available",
              "shared_subscription_available"}
OptionSetters == {"content_type", "response_topic", "server_reference", "correlation_data",
                "assigned_client_identifier"}
ScalarSetters == PlainSetters \cup BoolSetters \cup OptionSetters \cup {"maximum_qos"}

(* the arguments a setter can be called with *)
SetterValues(slot) ==
    IF slot \in OptionSetters THEN {None, Some(<<65>>), Some(<<66>>)}
    ELSE IF slot = "maximum_qos" THEN 0 .. 3
    ELSE IF slot = "authentication_method" THEN {<<65>>, <<66>>}
    ELSE {0, 20, 60}

(* PropertiesBuilder::<slot>(value) *)
Setter(builder, slot, value) ==
    IF slot \in OptionSetters THEN set_non_empty(builder, slot, value)
    ELSE IF slot = "maximum_qos" THEN set_maximum_qos(builder, value)
    ELSE IF slot \in BoolSetters THEN check_and_set(builder, slot, value # 0)
    ELSE check_and_set(builder, slot, value)

UserPairs == {<<<<107>>, <<118>>>>, <<<<97>>, <<98, 99>>>>}

RECURSIVE SeqsUpTo(_, _)
SeqsUpTo(S, n) ==
    IF n = 0 THEN {<< >>}
    ELSE LET shorter == SeqsUpTo(S, n - 1)
         IN  shorter \cup { Append(s, x) : s \in shorter, x \in S }

PropertiesInit ==
    /\ CodecInit
    /\ maximum_packet_size = None
    /\ identifier = 0
    /\ used = {}
    /\ timeout = None
    /\ pc = "idle"
    /\ log = << >>
    /\ result = NoResult
    /\ calls = 0
    /\ awaiting = {}
    /\ leaked = {}
    /\ \/ \E packet \in PropertyDecoders, id \in 1 .. 42 :
          \E values \in SeqsUpTo(PropertyValues(id), 2) \ {<< >>} :
             op = [kind |-> "region", packet |-> packet, id |-> id, values |-> values]
       \/ \E slot \in ScalarSetters : \E first, second \in SetterValues(slot) :
             op = [kind |-> "set", slot |-> slot, first |-> first, second |-> second]
       \/ \E pairs \in SeqsUpTo(UserPairs, MaxUserProperties) :
             op = [kind |-> "user", pairs |-> pairs]

(* what a property decoder returns: the builder it projects from, the error
   of a `?`, or the abort of unimplemented!() *)
PropertiesOutcome(r) ==
    IF r.err = "panic" THEN Panicked
    ELSE IF r.err = "" THEN Ok(r.builder)
    ELSE Err(r.err)

(* one call of the property decoder of op.packet on the region *)
DecodeProperties ==
    /\ pc = "idle"
    /\ op.kind = "region"
    /\ LET returned(r) == result' = PropertiesOutcome(r)
       IN  returned(decode_properties_loop(op.packet, Region(op.id, op.values),
                                           PropertiesBuilder_default))
    /\ pc' = "decoded"
    /\ UNCHANGED codecVars
    /\ UNCHANGED <<identifier, used, timeout, op, log, calls, awaiting, leaked>>

(* the builder a sequence of setter calls has arrived at *)
CurrentBuilder == IF pc = "idle" THEN PropertiesBuilder_default ELSE result.value

(* one call of the setter of op.slot: the first on a fresh builder, the second
   on the builder the first returned *)
SetProperty ==
    /\ op.kind = "set"
    /\ pc \in {"idle", "once"}
    /\ pc = "once" => result.kind = "Ok"
    /\ LET returned(r) == result' = IF r.err = "" THEN Ok(r.builder) ELSE Err(r.err)
       IN  returned(Setter(CurrentBuilder, op.slot,
                           IF pc = "idle" THEN op.first ELSE op.second))
    /\ pc' = IF pc = "idle" THEN "once" ELSE "twice"
    /\ UNCHANGED codecVars
    /\ UNCHANGED <<identifier, used, timeout, op, log, calls, awaiting, leaked>>

(* one call of PropertiesBuilder::user_property with the next pair *)
AddUserProperty ==
    /\ op.kind = "user"
    /\ calls < Len(op.pairs)
    /\ result' = Ok(user_property(CurrentBuilder, op.pairs[calls + 1]))
    /\ calls' = calls + 1
    /\ pc' = "added"
    /\ UNCHANGED codecVars
    /\ UNCHANGED <<identifier, used, timeout, op, log, awaiting, leaked>>

PropertiesNext ==
    \/ DecodeProperties
    \/ SetProperty
    \/ AddUserProperty

SpecProperties == PropertiesInit /\ [][PropertiesNext]_vars

(***************************************************************************)
(* Property claims                                                         *)
(***************************************************************************)

(* the decoder of packet accepts a region holding this one value of id *)
AcceptedAlone(packet, id, value) ==
    decode_properties_loop(packet, Region(id, <<value>>), PropertiesBuilder_default).err = ""

(* the key and value strings of a user property as it stands on the wire *)
UserPairOf(value) ==
    LET k == decode_utf8_string(value)
    IN  <<Unwrap(k.value), Unwrap(decode_utf8_string(k.rest).value)>>

(* the user properties every projection of the builder returns *)
ProjectedUserProperties(b) ==
    {pubres(b).user_properties, publish(b).user_properties, connack(b).user_properties,
     disconnect(b).user_properties, subscribe(b).user_properties}

(* the arguments the setter of slot stores when the slot is empty *)
StoredValues(slot) ==
    IF slot \in OptionSetters THEN SetterValues(slot) \ {None}
    ELSE IF slot = "maximum_qos" THEN 0 .. 2
    ELSE SetterValues(slot)

(* C19: a scalar setter called, with a value it would store, on a builder
   whose slot is already filled returns MoreThanOnceProperty; a properties region in which the same scalar
   property id occurs twice, each occurrence accepted on its own, fails to
   decode with MoreThanOnceProperty; user properties can be added any number
   of times, by the setter or from a region, and every projection returns
   them in insertion order. *)
C19_SingleAssignment ==
    /\ (op.kind = "set" /\ pc = "twice" /\ op.second \in StoredValues(op.slot))
           => result = Err("MoreThanOnceProperty")
    /\ (/\ op.kind = "region"
        /\ pc = "decoded"
        /\ Len(op.values) = 2
        /\ op.id # UserProperty
        /\ \A i \in 1 .. 2 : AcceptedAlone(op.packet, op.id, op.values[i]))
           => result = Err("MoreThanOnceProperty")
    /\ (op.kind = "user" /\ pc = "added")
           => /\ result.kind = "Ok"
              /\ ProjectedUserProperties(result.value) = {SubSeq(op.pairs, 1, calls)}
    /\ (op.kind = "region" /\ pc = "decoded" /\ op.id = UserProperty)
           => /\ result.kind = "Ok"
              /\ ProjectedUserProperties(result.value)
                    = {[i \in 1 .. Len(op.values) |-> UserPairOf(op.values[i])]}

(* the whitelist rows of the packet kinds *)
WhitelistRow(packet) ==
    CASE packet = "connect" -> {17, 33, 39, 34, 25, 23, 38, 21, 22}
      [] packet = "connack" -> {17, 33, 36, 37, 39, 18, 34, 31, 38, 40, 41, 42, 19, 21, 22}
      [] packet = "publish" -> {1, 2, 3, 8, 9, 11, 35, 38}
      [] packet = "pubres" -> {31, 38}
      [] packet = "subscribe" -> {11, 38}
      [] packet = "unsubscribe" -> {38}
      [] packet = "disconnect" -> {17, 28, 31, 38}
      [] packet = "will" -> {1, 2, 3, 8, 9, 24, 38}
      [] packet = "auth" -> {21, 22, 31, 38}

(* C20: for each packet kind and each property id in 0x01..0x2A, the packet's
   property decoder accepts a region holding one well-formed occurrence of
   the id (a string or binary value of non-zero length) exactly when the id
   is in the packet's whitelist row, and fails with UnacceptableProperty for
   every id outside the row. *)
C20_PropertyWhitelist ==
    (op.kind = "region" /\ pc = "decoded" /\ op.values \notin {<< >>, <<<<0, 0>>>>}
        /\ Len(op.values) = 1) =>
        /\ (result.kind = "Ok") <=> (op.id \in WhitelistRow(op.packet))
        /\ op.id \notin WhitelistRow(op.packet) => result = Err("UnacceptableProperty")

(***************************************************************************)
(* Publish packets through the codec: any combination of qos and packet    *)
(* identifier is given to the encoder, and what it wrote is read back.     *)
(***************************************************************************)

PublishInputs ==
    { MkPublish(dup, qos, retain, TopicA, packet_identifier, publish(b), payload) :
          dup \in BOOLEAN, qos \in 0 .. 2, retain \in BOOLEAN,
          packet_identifier \in {None, Some(258)},
          b \in Builders({"topic_alias"}), payload \in {<< >>, PayloadHi} }

PublishCodecNext ==
    \/ \E packet \in PublishInputs : sent = << >> /\ wire = << >> /\ Encode(packet)
    \/ Read(Len(wire))
    \/ Decode

SpecPublishCodec == RoundTripInit /\ [][PublishCodecNext]_vars

(* a Publish has a packet identifier exactly when its qos is not AtMostOnce *)
IdentifierIffQos(packet) ==
    packet.type = "Publish" => (IsSome(packet.packet_identifier) <=> packet.qos # 0)

(* C21: every Publish the decoder returns, and every Publish the encoder
   accepts without error, has a packet identifier if and only if its qos is
   not AtMostOnce; the encoder rejects a QoS1/QoS2 Publish without identifier
   with UndefinedPacketIdentifier. *)
C21_PublishIdentifier ==
    /\ [](\A i \in 1 .. Len(received) : IdentifierIffQos(received[i]))
    /\ [](\A i \in 1 .. Len(sent) : IdentifierIffQos(sent[i]))
    /\ [][\A packet \in PublishInputs :
             (Encode(packet) /\ packet.qos # 0 /\ packet.packet_identifier = None)
                 => (encode_err' = "UndefinedPacketIdentifier" /\ sent' = sent)]_vars

(***************************************************************************)
(* Given frames: a byte sequence arrives at a fresh framing decoder in     *)
(* chunks; the packet the decoder returned is then encoded again.          *)
(***************************************************************************)

ResponseTypeBytes == {64, 80, 98, 112}

(* PubAck / PubRec / PubRel / PubComp whose body is the packet identifier *)
ShortResponseFrames ==
    { <<t, 2>> \o put_u16(id) : t \in ResponseTypeBytes, id \in SampleIdentifiers \cup {42} }

(* the same with reason code and an empty properties region *)
LongResponseFrames ==
    { <<t, 4>> \o put_u16(id) \o <<rc, 0>> :
          t \in ResponseTypeBytes, id \in {42}, rc \in SampleReasonCodes }

(* Disconnect with an empty body, with a reason code only, and with reason
   code and an empty properties region *)
DisconnectFrames ==
    { <<224, 0>> }
    \cup { <<224, 1, rc>> : rc \in ReasonCodes }
    \cup { <<224, 2, rc, 0>> : rc \in SampleReasonCodes }

(* 31 0C 00 05 61 2F 62 2F 63 00 68 69 *)
ScenarioS3 == <<49, 12, 0, 5, 97, 47, 98, 47, 99, 0, 104, 105>>

(* the topic, properties length and payload of S3 behind a fixed header that
   gives their length: 31 0A 00 05 61 2F 62 2F 63 00 68 69 *)
ScenarioS3Framed == <<49, 10>> \o Drop(ScenarioS3, 2)

OtherFrames ==
    { <<192, 0>>, <<208, 0>>,
      <<32, 3, 0, 0, 0>>, <<32, 3, 1, 128, 0>>,
      <<50, 6, 0, 1, 97, 1, 2, 0>>, <<50, 8, 0, 1, 97, 1, 2, 0, 104, 105>>,
      <<64, 8, 0, 42, 0, 4, 31, 0, 1, 97>>,
      <<64, 10, 0, 42, 0, 6, 38, 0, 1, 107, 0, 1, 118>>,
      <<130, 7, 0, 1, 0, 0, 1, 97, 0>> }

(* SubAck frames: identifier 1, then no properties and one reason code, no
   properties and two reason codes, a reason string "a" and two reason
   codes, a user property and one reason code *)
SubAckFrames ==
    { <<144, 4, 0, 1, 0, 0>>,
      <<144, 5, 0, 1, 0, 1, 128>>,
      <<144, 9, 0, 1, 4, 31, 0, 1, 97, 0, 2>>,
      <<144, 11, 0, 1, 7, 38, 0, 1, 107, 0, 1, 118, 1>> }

SampleFrames ==
    ShortResponseFrames \cup LongResponseFrames \cup DisconnectFrames
        \cup {ScenarioS3, ScenarioS3Framed} \cup OtherFrames \cup SubAckFrames

(* op keeps the frame that was given *)
FramesInit ==
    /\ identifier = 0
    /\ used = {}
    /\ timeout = None
    /\ pc = "idle"
    /\ log = << >>
    /\ result = NoResult
    /\ calls = 0
    /\ awaiting = {}
    /\ leaked = {}
    /\ maximum_packet_size = None
    /\ sent = << >>
    /\ encode_err = ""
    /\ wire \in SampleFrames
    /\ op = [kind |-> "frame", bytes |-> wire]
    /\ fed = 0
    /\ reader = << >>
    /\ part = FixedHeader
    /\ is_readable = FALSE
    /\ received = << >>
    /\ decode_err = ""

(* every byte of the frame reached the decoder and decode was called until
   it reported need-more or failed; nothing was encoded yet *)
FrameDecoded == sent = << >> /\ wire = << >> /\ fed > 0 /\ ~is_readable

(* MqttCodec::encode of the packet the decoder returned for the frame *)
Reencode ==
    /\ FrameDecoded
    /\ decode_err = ""
    /\ Len(received) = 1
    /\ Encode(received[1])

FramesNext ==
    \/ \E n \in ChunkSizes : Read(n)
    \/ Decode
    \/ Reencode

SpecFrames == FramesInit /\ [][FramesNext]_vars

(***************************************************************************)
(* Given-frame claims                                                      *)
(***************************************************************************)

NoDisconnectProperties == disconnect(PropertiesBuilder_default)

(* C22: a PubAck, PubRec, PubRel or PubComp whose body is exactly the two
   byte packet identifier decodes to that identifier with reason Success and
   empty properties; a Disconnect with empty body decodes to reason Success
   and empty properties; a Disconnect whose body is only a reason byte
   decodes to that reason with empty properties. *)
C22_OptionalTails ==
    (op.kind = "frame" /\ FrameDecoded) =>
        /\ op.bytes \in ShortResponseFrames =>
              /\ decode_err = ""
              /\ received = << MkResponse(PacketType_try_from(op.bytes[1]).value.name,
                                          get_u16(Drop(op.bytes, 2)), Success,
                                          NoProperties) >>
        /\ op.bytes = <<224, 0>> =>
              /\ decode_err = ""
              /\ received = << [type |-> "Disconnect", reason_code |-> Success,
                                properties |-> NoDisconnectProperties] >>
        /\ (op.bytes \in DisconnectFrames /\ Len(op.bytes) = 3) =>
              /\ decode_err = ""
              /\ received = << [type |-> "Disconnect", reason_code |-> op.bytes[3],
                                properties |-> NoDisconnectProperties] >>

(* 40 02 00 2A became PubAck 42 with reason Success and no properties *)
C22_Witness ==
    /\ op.kind = "frame"
    /\ op.bytes = <<64, 2, 0, 42>>
    /\ FrameDecoded
    /\ received = << MkResponse("PubAck", 42, Success, NoProperties) >>

(***************************************************************************)
(* Length claims                                                           *)
(***************************************************************************)

(* the bytes the encoder of the packet's property bundle writes: the
   properties length, then the properties *)
EncodedProperties(packet) ==
    CASE packet.type = "Publish" -> encode_PublishProperties(packet.properties).bytes
      [] packet.type = "ConnAck" -> encode_ConnAckProperties(packet.properties)
      [] packet.type = "Disconnect" -> encode_DisconnectProperties(packet.properties)
      [] packet.type = "Subscribe" -> encode_SubscribeProperties(packet.properties)
      [] packet.type \in {"PubAck", "PubRec", "PubRel", "PubComp", "SubAck", "UnSubAck"} ->
            encode_ResponseProperties(packet.properties)
      [] OTHER -> <<0>>

(* a variable byte integer followed by exactly as many bytes as it says *)
LengthPrefixed(bytes) ==
    LET counted(n) == n.err = "" /\ n.value = Len(n.rest)
    IN  counted(decode_variable_integer(bytes))

(* C23: for every packet the encoder accepts, the remaining length written
   in the fixed header equals the number of body bytes written after it, and
   the properties length written by the packet's property encoder equals the
   number of property bytes written after it, for every set of filled
   property slots. *)
C23_DeclaredLengths ==
    (Len(sent) = 1 /\ fed = 0 /\ encode_err = "") =>
        /\ LengthPrefixed(Tail(wire))
        /\ LengthPrefixed(EncodedProperties(sent[1]))

(* C24: for every frame the decoder turns into a packet, the short forms of
   PubAck / PubRec / PubRel / PubComp and Disconnect included, encoding that
   packet succeeds and writes exactly the bytes of the frame. *)
C24_CanonicalReencoding ==
    (op.kind = "frame" /\ fed = Len(op.bytes) /\ (Len(sent) = 1 \/ encode_err # "")) =>
        (encode_err = "" /\ wire = op.bytes)

(***************************************************************************)
(* The session: MQTTOptions::connect, calls on the client it returned, and *)
(* Client::disconnect.  pc is "new" before connect, "failed" when connect  *)
(* returned an error (there is no client then), "idle" while the client    *)
(* exists and no call is in progress.                                      *)
(***************************************************************************)

(* the Connect that Client::connect builds from the default options *)
ConnectMsg ==
    [type |-> "Connect", reserved |-> FALSE, clean_start_flag |-> TRUE, keep_alive |-> 0,
     client_identifier |-> None, username |-> None, password |-> None, will |-> None]

ConnAckMsg(reason_code) ==
    [type |-> "ConnAck", session_present |-> FALSE, reason_code |-> reason_code,
     properties |-> connack(PropertiesBuilder_default)]

(* the Disconnect that disconnect_with_reason builds *)
DisconnectMsg(reason_code) ==
    [type |-> "Disconnect", reason_code |-> reason_code,
     properties |-> disconnect(PropertiesBuilder_default)]

(* the client MQTTOptions::connect returns *)
TheClient == [type |-> "Client"]

(* the packets the peer may deliver outside a publish handshake *)
PeerPackets ==
    { ConnAckMsg(rc) : rc \in {Success, UnspecifiedError, 135} }
    \cup { [type |-> "PingResp"], DisconnectMsg(Success),
           MkResponse("PubAck", 1, Success, NoProperties),
           MkPublish(FALSE, 0, FALSE, TopicA, None, NoPublishProperties, PayloadHi) }

(* the errors of Client::recv: the decoder failed, the stream ended, the
   receive timed out *)
RecvErrors ==
    {"decode"}
    \cup (IF IsSome(timeout) THEN {"disconnected", "deadline has elapsed"}
          ELSE {"none message"})

SessionInit ==
    /\ CodecInit
    /\ maximum_packet_size = None
    /\ identifier = 0
    /\ used = {}
    /\ timeout \in {None, Some(1)}
    /\ pc = "new"
    /\ op = NoOp
    /\ log = << >>
    /\ result = NoResult
    /\ calls = 0
    /\ awaiting = {}
    /\ leaked = {}

(* MQTTOptions::connect up to the await of the first packet: the socket is
   connected and Client::connect sends the Connect *)
MQTTOptions_connect(tcp_ok, io_ok) ==
    /\ pc = "new"
    /\ op' = [kind |-> "connect"]
    /\ IF tcp_ok /\ io_ok
       THEN /\ log' = <<Sent(ConnectMsg)>>
            /\ pc' = "wait_connack"
            /\ result' = NoResult
       ELSE /\ log' = << >>
            /\ pc' = "failed"
            /\ result' = Err("io")
    /\ UNCHANGED <<identifier, used, timeout, calls, awaiting, leaked>>
    /\ UNCHANGED codecVars

(* MQTTOptions::connect without the test of ack.reason_code *)
ConnectRecv_any_reason(packet) ==
    /\ pc = "wait_connack"
    /\ packet \in PeerPackets
    /\ log' = Append(log, Recv(packet))
    /\ IF packet.type # "ConnAck"
       THEN pc' = "failed" /\ result' = Err("unexpected")
       ELSE pc' = "idle" /\ result' = Ok(TheClient)
    /\ UNCHANGED <<identifier, used, timeout, op, calls, awaiting, leaked>>
    /\ UNCHANGED codecVars

(* the and_then of Client::connect and the reason code test of
   MQTTOptions::connect, for a packet received *)
ConnectRecv(packet) ==
    /\ pc = "wait_connack"
    /\ packet \in PeerPackets
    /\ log' = Append(log, Recv(packet))
    /\ IF packet.type # "ConnAck"
       THEN pc' = "failed" /\ result' = Err("unexpected")
       ELSE IF packet.reason_code # Success
       THEN pc' = "failed" /\ result' = Err("Connect error")
       ELSE pc' = "idle" /\ result' = Ok(TheClient)
    /\ UNCHANGED <<identifier, used, timeout, op, calls, awaiting, leaked>>
    /\ UNCHANGED codecVars

(* Client::connect when recv returned an error *)
ConnectRecvError(e) ==
    /\ pc = "wait_connack"
    /\ e \in RecvErrors
    /\ log' = Append(log, [dir |-> "recv_error", packet |-> NoPacket])
    /\ pc' = "failed"
    /\ result' = Err(e)
    /\ UNCHANGED <<identifier, used, timeout, op, calls, awaiting, leaked>>
    /\ UNCHANGED codecVars

(* Client::disconnect = disconnect_with_reason(Success), up to the await of
   stream.next() *)
disconnect_with_reason(reason_code, io_ok) ==
    /\ pc = "idle"
    /\ calls < MaxCalls
    /\ LET msg == DisconnectMsg(reason_code)
           e == send(msg, io_ok)
       IN  IF e = ""
           THEN /\ log' = <<Sent(msg)>>
                /\ pc' = "wait_close"
                /\ result' = NoResult
                /\ op' = [kind |-> "disconnect", peer_closed |-> FALSE]
           ELSE /\ log' = << >>
                /\ pc' = "idle"
                /\ result' = Err(e)
                /\ op' = [kind |-> "disconnect", peer_closed |-> FALSE]
    /\ calls' = calls + 1
    /\ UNCHANGED <<identifier, used, timeout, awaiting, leaked>>
    /\ UNCHANGED codecVars

(* self.stream.next().await.transpose(): the stream yields a packet, and the
   call returns it *)
DisconnectRecv(packet) ==
    /\ pc = "wait_close"
    /\ packet \in PeerPackets
    /\ log' = Append(log, Recv(packet))
    /\ pc' = "idle"
    /\ result' = Ok(Some(packet))
    /\ UNCHANGED <<identifier, used, timeout, op, calls, awaiting, leaked>>
    /\ UNCHANGED codecVars

(* the stream yields a decode error *)
DisconnectRecvError ==
    /\ pc = "wait_close"
    /\ log' = Append(log, [dir |-> "recv_error", packet |-> NoPacket])
    /\ pc' = "idle"
    /\ result' = Err("decode")
    /\ UNCHANGED <<identifier, used, timeout, op, calls, awaiting, leaked>>
    /\ UNCHANGED codecVars

(* the peer closed the connection: the stream ends and the call returns
   Ok(None) *)
DisconnectClosed ==
    /\ pc = "wait_close"
    /\ log' = Append(log, [dir |-> "closed", packet |-> NoPacket])
    /\ pc' = "closed"
    /\ result' = Ok(None)
    /\ op' = [op EXCEPT !.peer_closed = TRUE]
    /\ UNCHANGED <<identifier, used, timeout, calls, awaiting, leaked>>
    /\ UNCHANGED codecVars

SessionNext ==
    \/ \E tcp_ok, io_ok \in BOOLEAN : MQTTOptions_connect(tcp_ok, io_ok)
    \/ \E packet \in PeerPackets : ConnectRecv(packet)
    \/ \E e \in RecvErrors : ConnectRecvError(e)
    \/ \E io_ok \in BOOLEAN : at_most_once_publish(io_ok)
    \/ \E io_ok \in BOOLEAN : Subscribe(0, io_ok)
    \/ \E packet \in Inbound(identifier) : SubscribeRecv(packet)
    \/ \E io_ok \in BOOLEAN : disconnect_with_reason(Success, io_ok)
    \/ \E packet \in PeerPackets : DisconnectRecv(packet)
    \/ DisconnectRecvError
    \/ DisconnectClosed

SpecSession == SessionInit /\ [][SessionNext]_vars

(***************************************************************************)
(* Session claims                                                          *)
(***************************************************************************)

(* C25: MQTTOptions::connect sends exactly one Connect and returns a client
   only if the first packet received afterwards is a ConnAck with reason
   Success; a ConnAck with another reason code, a packet of another kind, a
   decode error, a timeout or the end of the stream makes it fail; while no
   client was returned no publish or subscribe is issued, and a failed
   connect stays failed. *)
C25_ConnectHandshake ==
    /\ [](pc \in {"new", "wait_connack", "failed"} => calls = 0)
    /\ [](pc = "wait_connack" => log = <<Sent(ConnectMsg)>>)
    /\ [][pc = "failed" => pc' = "failed"]_vars
    /\ [][(pc \in {"new", "wait_connack"} /\ pc' \notin {"new", "wait_connack", "failed"})
             => /\ pc' = "idle"
                /\ result' = Ok(TheClient)
                /\ Len(log') = 2
                /\ log'[1] = Sent(ConnectMsg)
                /\ log'[2].dir = "recv"
                /\ log'[2].packet.type = "ConnAck"
                /\ log'[2].packet.reason_code = Success]_vars
    /\ [][\A packet \in PeerPackets :
             (ConnectRecv(packet)
                 /\ ~(packet.type = "ConnAck" /\ packet.reason_code = Success))
                 => (pc' = "failed" /\ result'.kind = "Err")]_vars
    /\ [][\A e \in RecvErrors :
             ConnectRecvError(e) => (pc' = "failed" /\ result'.kind = "Err")]_vars

(* connect returned the client after one Connect and a ConnAck with Success *)
C25_Witness ==
    /\ pc = "idle"
    /\ calls = 0
    /\ op.kind = "connect"
    /\ result = Ok(TheClient)
    /\ log = <<Sent(ConnectMsg), Recv(ConnAckMsg(Success))>>

(* C26: disconnect sends exactly one Disconnect and then reads from the
   stream until the peer closes it: it does not return a result while the
   peer has the connection open and sends packets. *)
C26_DisconnectDrains ==
    /\ [](pc = "wait_close" => log = <<Sent(DisconnectMsg(Success))>>)
    /\ [][(pc = "wait_close" /\ pc' # "wait_close" /\ result'.kind = "Ok")
             => op'.peer_closed]_vars

(***************************************************************************)
(* QoS 0 publish                                                           *)
(***************************************************************************)

(* the state right after a Publisher::publish call with qos = AtMostOnce *)
Qos0Returned == Returned(0) /\ calls > 0

(* C27: a publish with qos = AtMostOnce returns without waiting (the client
   is idle in the very state the call produced); when the write succeeded
   it returned Success and the call wrote exactly one Publish, with QoS 0
   and no packet identifier, and read nothing; when the write failed it
   returned the error and wrote nothing.  The step that makes the call
   leaves the allocator's counter and used set as they were. *)
C27_Qos0FireAndForget ==
    /\ [](Qos0Returned =>
            /\ result.kind \in {"Ok", "Err"}
            /\ \A i \in 1 .. Len(log) : log[i].dir = "sent"
            /\ result.kind = "Ok" =>
                  /\ result = Ok(Success)
                  /\ Len(log) = 1
                  /\ log[1].packet.type = "Publish"
                  /\ log[1].packet.qos = 0
                  /\ log[1].packet.packet_identifier = None
            /\ result.kind = "Err" => log = << >>)
    /\ [][(op'.kind = "publish" /\ op'.qos = 0 /\ calls' # calls) =>
              /\ pc' = "idle"
              /\ identifier' = identifier
              /\ used' = used
              /\ awaiting' = awaiting]_vars

(* a QoS 0 publish has returned Success after a QoS 1 publish took an
   identifier: the allocator still holds what the first call left *)
C27_Witness ==
    /\ Qos0Returned
    /\ result = Ok(Success)
    /\ calls = 2
    /\ log = <<Sent(MkPublish(FALSE, 0, FALSE, TopicA, None, NoPublishProperties, PayloadHi))>>
    /\ identifier = 1

(***************************************************************************)
(* Scenario S3                                                             *)
(***************************************************************************)

(* "a/b/c" *)
TopicABC == <<97, 47, 98, 47, 99>>

(* Publish{dup=false, qos=0, retain=true, topic="a/b/c", packet_id=none,
   properties=empty, payload="hi"} *)
S3Publish == MkPublish(FALSE, 0, TRUE, TopicABC, None, NoPublishProperties, PayloadHi)

(* C28 as stated: once the 12 bytes 31 0C 00 05 61 2F 62 2F 63 00 68 69 have
   been fed to a fresh decoder, however they were split, and the decoder has
   run until it needs more bytes, it has returned exactly the Publish of S3. *)
C28_ScenarioS3_AsStated ==
    (op.kind = "frame" /\ op.bytes = ScenarioS3 /\ FrameDecoded) =>
        (decode_err = "" /\ received = <<S3Publish>>)

(* C28: once the 12 bytes 31 0A 00 05 61 2F 62 2F 63 00 68 69 (remaining
   length 10, the number of bytes that follow) have been fed to a fresh
   decoder, however they were split, and the decoder has run until it needs
   more bytes, it has returned exactly one packet, the Publish with
   dup=false, qos=0, retain=true, topic "a/b/c", no packet identifier,
   empty properties and payload "hi", and holds no bytes back. *)
C28_ScenarioS3 ==
    (op.kind = "frame" /\ op.bytes = ScenarioS3Framed /\ FrameDecoded) =>
        (decode_err = "" /\ received = <<S3Publish>> /\ reader = << >>)

(* the frame of S3 with remaining length 10 has been decoded *)
C28_Witness ==
    /\ op.kind = "frame"
    /\ op.bytes = ScenarioS3Framed
    /\ FrameDecoded
    /\ received = <<S3Publish>>

(***************************************************************************)
(* QoS 2, second phase                                                     *)
(***************************************************************************)

(* the call in progress, or the last call, is a QoS 2 publish *)
Qos2Call == op.kind = "publish" /\ op.qos = 2

(* log entry i is a PubRel the call sent *)
PubRelAt(i) == log[i].dir = "sent" /\ log[i].packet.type = "PubRel"

(* position of the first PubRel of the call, 0 before the second phase *)
FirstPubRel ==
    IF \E i \in 1 .. Len(log) : PubRelAt(i)
    THEN CHOOSE i \in 1 .. Len(log) : PubRelAt(i) /\ \A j \in 1 .. i - 1 : ~PubRelAt(j)
    ELSE 0

(* number of 3-second windows of the second phase that ended with nothing
   received *)
CompTimeouts == Cardinality({i \in FirstPubRel + 1 .. Len(log) : log[i] = Elapsed})

(* C29: in a QoS 2 publish, every PubRel sent carries reason Success and
   the allocated identifier and comes after the receipt of a PubRec with
   that identifier and reason Success; no Publish is sent after a PubRel;
   every PubRel but the first directly follows a 3-second timeout, and while
   the call waits for PubComp each timeout so far was answered by one
   retransmission; at most 4 PubRel are sent; the identifier is held while
   the call waits for PubRec or PubComp; when the second phase ends with a
   matching PubComp the call returns that packet's reason code and the
   identifier is free, when it ends otherwise the call fails and the
   identifier is still held; the fourth timeout of the second phase ends
   the call with "PUBCOMP error". *)
C29_Qos2SecondPhase ==
    Qos2Call =>
        LET id == Unwrap(op.packet_identifier)
            last == log[Len(log)]
        IN  /\ \A i \in 1 .. Len(log) :
                   PubRelAt(i) =>
                       /\ log[i].packet = MkResponse("PubRel", id, Success, NoProperties)
                       /\ \E j \in 1 .. i - 1 :
                              Matching(log[j], "PubRec") /\ log[j].packet.reason_code = Success
                       /\ \A j \in i + 1 .. Len(log) :
                              ~(log[j].dir = "sent" /\ log[j].packet.type = "Publish")
                       /\ i # FirstPubRel => log[i - 1] = Elapsed
            /\ Len(SentPubRels) <= InitialRetries + 1
            /\ pc \in {"wait_rec", "wait_comp"} => id \in used
            /\ pc = "wait_comp" =>
                   /\ FirstPubRel > 0
                   /\ Len(SentPubRels) = CompTimeouts + 1
                   /\ CompTimeouts <= InitialRetries
            /\ (FirstPubRel > 0 /\ pc = "idle") =>
                   IF Matching(last, "PubComp")
                   THEN result = Ok(last.packet.reason_code) /\ id \notin used
                   ELSE result.kind = "Err" /\ id \in used
            /\ (FirstPubRel > 0 /\ CompTimeouts = InitialRetries + 1) =>
                   (pc = "idle" /\ result = Err("PUBCOMP error"))
            /\ (pc = "idle" /\ result = Err("PUBCOMP error")) =>
                   CompTimeouts = InitialRetries + 1

(* the PubComp arrived after the third retransmission of the PubRel and
   carried a failure reason code *)
C29_Witness ==
    /\ Returned(2)
    /\ Len(SentPubRels) = InitialRetries + 1
    /\ Matching(log[Len(log)], "PubComp")
    /\ result = Ok(UnspecifiedError)
    /\ Unwrap(op.packet_identifier) \notin used

(***************************************************************************)
(* Strict acknowledgement matching                                         *)
(***************************************************************************)

(* the kind of acknowledgement the call awaited when it received log entry
   i: PubAck for QoS 1, PubRec before the first PubRel and PubComp after it
   for QoS 2 *)
AwaitedKind(i) ==
    IF op.qos = 1 THEN "PubAck"
    ELSE IF FirstPubRel > 0 /\ FirstPubRel < i THEN "PubComp"
    ELSE "PubRec"

(* number of packets the call received *)
ReceivedCount == Len(SelectSeq(log, LAMBDA e : e.dir = "recv"))

(* C30: in a QoS 1 or QoS 2 publish, a received packet that is not the
   awaited acknowledgement carrying the awaited identifier is the last entry
   of the call's log, nothing having been sent or received after it, and the
   call has returned the "unexpected" error; the call received at most one
   packet per wait, one for QoS 1 and two for QoS 2.  The step that
   receives such a packet ends the call and leaves the retry counter and the
   allocator as they were. *)
C30_StrictMatching ==
    /\ []((op.kind = "publish" /\ op.qos # 0) =>
            /\ \A i \in 1 .. Len(log) :
                   (log[i].dir = "recv" /\ ~Matching(log[i], AwaitedKind(i))) =>
                       /\ i = Len(log)
                       /\ pc = "idle"
                       /\ result = Err("unexpected")
            /\ ReceivedCount <= op.qos)
    /\ [][(/\ pc \in {"wait_ack", "wait_rec", "wait_comp"}
           /\ Len(log') = Len(log) + 1
           /\ log'[Len(log')].dir = "recv"
           /\ ~Matching(log'[Len(log')], AwaitedKind(Len(log')))) =>
              /\ pc' = "idle"
              /\ result' = Err("unexpected")
              /\ op' = op
              /\ used' = used
              /\ identifier' = identifier]_vars

(* a QoS 1 publish with all its retries left ended on an inbound Publish *)
C30_Witness ==
    /\ Returned(1)
    /\ Len(log) = 2
    /\ log[2].dir = "recv"
    /\ log[2].packet.type = "Publish"
    /\ op.retries = InitialRetries
    /\ result = Err("unexpected")

(***************************************************************************)
(* One publish in flight, against a peer that acknowledges everything      *)
(*                                                                         *)
(* The transport is modelled at the level of packets: sent holds the       *)
(* packets the client wrote that the peer has not answered yet, received   *)
(* the packets the peer wrote that Client::recv has not taken yet.         *)
(***************************************************************************)

(* the log entries the step appended: a new call starts a new log *)
NewEntries == IF calls' # calls THEN log' ELSE SubSeq(log', Len(log) + 1, Len(log'))

(* the packets the step handed to Client::send *)
Written ==
    LET k(e) == [i \in 1 .. Len(e) |-> e[i].packet]
    IN  k(SelectSeq(NewEntries, LAMBDA e : e.dir = "sent"))

(* what the step does to the transport: it writes the packets it sent and
   takes n packets from the stream *)
Transport(n) ==
    /\ sent' = sent \o Written
    /\ received' = Drop(received, n)
    /\ UNCHANGED <<encode_err, wire, fed, reader, part, maximum_packet_size,
                   is_readable, decode_err>>

(* the acknowledgement a broker owes for a packet: PubAck for a QoS 1
   Publish, PubRec for a QoS 2 Publish, PubComp for a PubRel *)
AckFor(packet) ==
    MkResponse(IF packet.type = "PubRel" THEN "PubComp"
               ELSE IF packet.qos = 1 THEN "PubAck" ELSE "PubRec",
               IF packet.type = "PubRel" THEN packet.packet_identifier
               ELSE Unwrap(packet.packet_identifier),
               Success, NoProperties)

(* the peer answers the oldest packet it has not answered, after any delay *)
PeerAnswer ==
    /\ sent # << >>
    /\ sent' = Tail(sent)
    /\ received' = Append(received, AckFor(Head(sent)))
    /\ UNCHANGED <<encode_err, wire, fed, reader, part, maximum_packet_size,
                   is_readable, decode_err>>
    /\ UNCHANGED clientVars

(* Publisher::publish with qos AtLeastOnce or ExactlyOnce *)
PipePublish(qos, io_ok) ==
    /\ Publisher_publish(qos, io_ok)
    /\ Transport(0)

(* a 3-second window ends: the stream held nothing during it *)
PipeElapsed(io_ok) ==
    /\ received = << >>
    /\ Publisher_elapsed(io_ok)
    /\ Transport(0)

(* the same in send_rel *)
PipeRelElapsed(io_ok) ==
    /\ received = << >>
    /\ send_rel_elapsed(io_ok)
    /\ Transport(0)

(* Client.timeout ends the receive: the stream held nothing *)
PipeRecvElapsed ==
    /\ received = << >>
    /\ Client_recv_elapsed
    /\ pc # "wait_suback"
    /\ Transport(0)

(* Client::recv in recv_ack takes the oldest packet of the stream *)
PipeRecvAck ==
    /\ received # << >>
    /\ Publisher_recv_ack(Head(received))
    /\ Transport(1)

(* Client::recv in recv_rec takes the oldest packet of the stream *)
PipeRecvRec(io_ok) ==
    /\ received # << >>
    /\ Publisher_recv_rec(Head(received), io_ok)
    /\ Transport(1)

(* Client::recv in res_comp takes the oldest packet of the stream *)
PipeResComp ==
    /\ received # << >>
    /\ Publisher_res_comp(Head(received))
    /\ Transport(1)

(* the connection stays up: every write succeeds *)
PipelineNext ==
    \/ \E qos \in {1, 2} : PipePublish(qos, TRUE)
    \/ PipeElapsed(TRUE)
    \/ PipeRelElapsed(TRUE)
    \/ PipeRecvElapsed
    \/ PipeRecvAck
    \/ PipeRecvRec(TRUE)
    \/ PipeResComp
    \/ PeerAnswer

SpecPipeline == SpecClientInit /\ [][PipelineNext]_vars

(* C31: publish calls are made one after another and the peer answers every
   Publish and PubRel, retransmissions included, after any delay, by the
   matching acknowledgement and sends nothing else: no publish call returns
   the "unexpected" error (stated for a client without per-receive timeout,
   the default). *)
C31_OneInFlightIsSafe ==
    (pc = "idle" /\ op.kind = "publish" /\ timeout = None) =>
        result # Err("unexpected")

(***************************************************************************)
(* Timeouts inside the publish handshakes                                  *)
(***************************************************************************)

(* the step ends a wait of a publish call by a timeout, of the 3-second
   window or of Client.timeout *)
WaitTimesOut ==
    /\ pc \in {"wait_ack", "wait_rec", "wait_comp"}
    /\ Len(log') > Len(log)
    /\ log'[Len(log) + 1].dir \in {"timeout", "recv_timeout"}

(* C32: a wait for PubAck, PubRec or PubComp that ends by a timeout while
   the retry counter is above zero is followed by a retransmission: the
   step sends the packet again, uses one retry and the call goes on waiting,
   or the write of the retransmission fails and the call returns that
   error. *)
C32_TimeoutsAreTransient ==
    [][(WaitTimesOut /\ op.retries > 0) =>
          \/ /\ pc' = pc
             /\ op'.retries = op.retries - 1
             /\ Len(log') = Len(log) + 2
             /\ log'[Len(log')].dir = "sent"
          \/ /\ pc' = "idle"
             /\ result' = Err("io")]_vars

(***************************************************************************)
(* Subscribe                                                               *)
(***************************************************************************)

(* C33: a subscribe call sent exactly one Subscribe, carrying the identifier
   it allocated, and when it has returned success the packet it received is
   a SubAck with that identifier; after any other packet it has failed. *)
C33_SubscribePairing ==
    (op.kind = "subscribe" /\ pc \in {"idle", "wait_suback"} /\ log # << >>) =>
        /\ log[1] = Sent(SubscribeMsg(Unwrap(op.packet_identifier), op.qos))
        /\ \A i \in 2 .. Len(log) : log[i].dir # "sent"
        /\ (pc = "idle" /\ Len(log) = 2 /\ log[2].dir = "recv") =>
               IF log[2].packet.type = "SubAck"
                  /\ log[2].packet.packet_identifier = Unwrap(op.packet_identifier)
               THEN result = Ok(log[2].packet)
               ELSE result.kind = "Err"

(***************************************************************************)
(* SubAck reason codes                                                     *)
(***************************************************************************)

(* the bytes of a SubAck frame after its properties region: the body is the
   identifier (2 bytes), the properties length (1 byte in the sample frames),
   the region, and the reason bytes *)
ReasonBytes(frame) == Drop(frame, 5 + frame[5])

(* C34: once a SubAck frame has been fed and decoded, the decoder has
   returned one SubAck whose reason codes are the bytes that follow the
   properties region, as many and in wire order. *)
C34_SubAckReasonCodes ==
    (op.kind = "frame" /\ op.bytes \in SubAckFrames /\ FrameDecoded) =>
        /\ decode_err = ""
        /\ Len(received) = 1
        /\ received[1].type = "SubAck"
        /\ received[1].reason_codes = ReasonBytes(op.bytes)

(***************************************************************************)
(* Reason string                                                           *)
(***************************************************************************)

(* the packet kinds whose property decoder accepts ReasonString (0x1F);
   PubAck, PubRec, PubRel, PubComp and SubAck share the pubres decoder *)
ReasonStringDecoders == {"connack", "pubres", "disconnect", "auth"}

(* the reason_string field of the bundle the decoder of the packet kind
   returns for builder b; PropertiesBuilder::auth copies b.reason_string *)
ReasonStringOf(packet, b) ==
    CASE packet = "connack" -> connack(b).reason_string
      [] packet = "pubres" -> pubres(b).reason_string
      [] packet = "disconnect" -> disconnect(b).reason_string
      [] OTHER -> b.reason_string

(* C35: a properties region holding one ReasonString with a non-empty value,
   decoded by the decoder of ConnAck, of PubAck/PubRec/PubRel/PubComp/SubAck,
   of Disconnect or of Auth, yields a bundle whose reason_string is that
   value. *)
C35_ReasonStringDelivery ==
    (/\ pc = "decoded"
     /\ op.kind = "region"
     /\ op.packet \in ReasonStringDecoders
     /\ op.id = ReasonString
     /\ Len(op.values) = 1
     /\ op.values[1] # <<0, 0>>) =>
        /\ result.kind = "Ok"
        /\ ReasonStringOf(op.packet, result.value) = Some(Drop(op.values[1], 2))

(***************************************************************************)
(* Encoding errors                                                         *)
(***************************************************************************)

(* C36: a call of MqttCodec::encode that returns an error leaves the output
   buffer holding exactly the bytes it held before the call. *)
C36_NoPartialPackets ==
    [][(encode_err = "" /\ encode_err' # "") => wire' = wire]_vars

(***************************************************************************)
(* The client when the allocator has nothing to give                       *)
(***************************************************************************)

(* a client whose counter has wrapped around while identifier 1 stayed in
   use after its publish ended in a timeout error: the candidate of the next
   allocation, or of the one after it, is held *)
ExhaustedInit ==
    /\ CodecInit
    /\ maximum_packet_size = None
    /\ identifier \in {0, 65535}
    /\ used = {1}
    /\ leaked = {1}
    /\ awaiting = {}
    /\ timeout \in {None, Some(1), Some(5)}
    /\ pc = "idle"
    /\ op = NoOp
    /\ log = << >>
    /\ result = NoResult
    /\ calls = 0

SpecExhausted == ExhaustedInit /\ [][ClientNext]_vars

(* the last call was a QoS 1 or QoS 2 publish or a subscribe, and next()
   gave it no identifier *)
AllocationFailed ==
    /\ calls > 0
    /\ \/ op.kind = "publish" /\ op.qos # 0
       \/ op.kind = "subscribe"
    /\ op.packet_identifier = None

(* C37: a QoS 1 or QoS 2 publish or a subscribe for which next() returned
   None has returned an error to its caller, has not aborted, and has sent
   nothing. *)
C37_AllocationFailureReported ==
    AllocationFailed =>
        /\ pc = "idle"
        /\ result.kind = "Err"
        /\ log = << >>

(***************************************************************************)
(* The allocator never searches; no double allocation                      *)
(***************************************************************************)

(* the last call of next() returned None and its candidate is still held *)
StillBlocked == calls > 0 /\ result = Ok(None) /\ Successor(identifier) \in used

(* C38: next() returns None exactly when the successor of the identifier
   returned last is held, whatever else is free; a next() that returned None
   left the counter and the used set as they were; and while that candidate
   has not been released every following next() returns None as well, the
   first next() after its release returning it. *)
C38_NeverSearches ==
    [][AllocatorNext =>
          /\ (result' = Ok(None)) <=> (Successor(identifier) \in used)
          /\ (result' = Ok(None)) => (identifier' = identifier /\ used' = used)
          /\ StillBlocked => (result' = Ok(None) /\ StillBlocked')
          /\ (calls > 0 /\ result = Ok(None) /\ ~StillBlocked) =>
                 result' = Ok(Some(Successor(identifier)))]_vars

(* next() returned None for the held candidate 1 after the counter wrapped,
   with nearly every other identifier free *)
C38_Witness ==
    /\ StillBlocked
    /\ identifier = 0
    /\ calls = U16Modulus + 1
    /\ used \subseteq HeldSample

(* C39: an identifier next() returns was not marked used before the call
   and is marked after it; a mark is set only by the next() that returns
   the identifier and cleared only by a release() of that identifier.  So
   an identifier that was handed out and not released since is marked and is
   not returned again: the identifiers outstanding are pairwise distinct. *)
C39_NoDoubleAllocation ==
    [][/\ (calls' # calls /\ IsSome(result'.value)) =>
              /\ Unwrap(result'.value) \notin used
              /\ used' = used \cup {Unwrap(result'.value)}
       /\ (calls' # calls /\ result'.value = None) => used' = used
       /\ calls' = calls => used' \subseteq used
       /\ \A j \in used \ used' : AllocatorRelease(j)]_vars

(* the third identifier was handed out while the first two were still held *)
C39_Witness ==
    /\ calls = 3
    /\ result = Ok(Some(3))
    /\ used = {1, 2, 3}

====
